---- MODULE Spec2Model ----
(***************************************************************************)
(* A model of pyclops: the reference-counting wrappers py_object,          *)
(* py_tuple and py_dict, the tuple builders, extension_module and the      *)
(* virtual dispatch of PyBase.                                             *)
(*                                                                         *)
(* The host runtime's objects are a small heap: each object has a type tag *)
(* and a reference count.  A wrapper is a C++ variable holding one handle. *)
(* Operations made of several statements run one statement per step, with  *)
(* pc naming the statement reached, so that the counts between two         *)
(* statements are states of the model.                                     *)
(***************************************************************************)
EXTENDS Integers, Sequences, FiniteSets, TLC

(* ----------------------------- bounds ---------------------------------- *)

\* Largest reference count an object reaches: an increment is not taken past it.
MaxRC == 2

(* ----------------------------- the heap -------------------------------- *)

NULL == "NULL"

\* The objects of the host runtime: Py_None, a tuple and a dict.  The dict is
\* the one PyDict_New() allocates: it does not exist at the start.
Obj == {"None", "tup", "dct"}

Handle == Obj \cup {NULL}

Tag(o) ==
    CASE o = "None" -> "none"
      [] o = "tup"  -> "tuple"
      [] OTHER      -> "dict"

PyTuple_Check(p) == Tag(p) = "tuple"

PyDict_Check(p) == Tag(p) = "dict"

\* The C++ variables of the program under study: every operation of the
\* wrappers has at most two operands.
W == {"a", "b"}

VARIABLES
    rc,      \* rc[o]: the reference count of object o (0: not allocated)
    ext,     \* ext[o]: the references to o owned outside the wrappers
    kind,    \* kind[w]: "absent", or the static type of wrapper w
    ptr,     \* ptr[w]: the handle wrapper w holds (py_object::ptr)
    pc,      \* the operation in progress and the statement it has reached
    pre,     \* the reference counts when the last operation started
    last,    \* the last operation started, its operands and its outcome
    \* --- py_tuple::make_empty / make / set_item ---
    tupRc,    \* reference count of the tuple object (0: none allocated)
    tupItems, \* its slots: item ids, 0 for a NULL slot
    itemRc,   \* itemRc[i]: reference count of item object i
    itemVal,  \* itemVal[i]: the value of item object i, "free" when not allocated
    retHeld,  \* the py_tuple `ret` (make) / `t` (caller) exists and holds the tuple
    otherHeld,\* a second py_tuple holds the tuple
    xptr,     \* the item held by the py_object passed to set_item (0: none)
    tpc,      \* statement reached in make / set_item
    mode,     \* "make": inside make; "empty": make_empty called directly; "call": the caller acts
    targs,    \* the native arguments of make
    tpos,     \* _set_tuple's pos
    setPos,   \* set_item's pos
    tpre,     \* item counts when PyTuple_SetItem is called
    slotPre,  \* the slots when PyTuple_SetItem is called
    tres,     \* outcome of make
    setRes,   \* outcome of the last set_item
    calls,    \* number of set_item calls the caller has made
    ub,       \* undefined behaviour has happened (a freed object was used)
    en,       \* the n make_empty was called with
    glast,    \* the last get_item: its pos, the tuple it was called on, its outcome
    \* --- extension_module ---
    finalized,      \* extension_module::finalized
    module_methods, \* extension_module::module_methods (the names registered)
    initCalls,      \* calls of Py_InitModule3 made so far
    initOk,         \* those that returned a module
    finCalls,       \* calls of finalize() made so far
    modLast,        \* the last call: its name, its outcome, the state it found
    \* --- Base / PyBase / g_Base ---
    inst,      \* the native PyBase: "none", "constructing", "alive", "destroyed"
    name,      \* Base::name
    proxy,     \* the python object of the instance: "none", "alive", "dead"
    hostRefs,  \* references python code holds on the proxy
    holder,    \* the proxy's storage holds a shared_ptr<Base> to the instance
    g_Base,    \* g_Base is non-null (it then points to the instance)
    use_count, \* use count of the shared_ptr control block
    weakref,   \* PyBase::weakref: "unset", "proxy", "cleared"
    fpc,       \* statement PyBase::f has reached
    fn,        \* f's argument n
    obj,       \* f's local obj: "unset", "proxy", "None"
    fp,        \* f's local fp: "unset", "NULL", "callable"
    fargs,     \* f's local args
    fret,      \* what the call of the attribute returned
    fres,      \* the last dispatch: how it was entered, what it did, its outcome
    nameLast,  \* the last get_name(): its result and the state it found
    readFreed, \* a destroyed proxy or a destroyed instance has been read
    \* --- a call from python to a registered function ---
    apc,       \* step the adapter has reached
    afunc,     \* the registered function called
    aargs,     \* the positional arguments python passes
    akw,       \* number of trailing parameters python passes by keyword
    anative,   \* the converted arguments
    ares,      \* what the native function returned
    aexc,      \* the exception in flight in native code, "none" if none
    aret,      \* the handle returned to python
    errFlag,   \* python's pending-error indicator is set
    escaped,   \* an exception has left native code
    aub,       \* the native function had undefined behaviour
    \* --- converter<X>, converter<shared_ptr<X>>, converter<shared_ptr<Base>> ---
    xobj,      \* xobj[o]: the native object o: its state, its class, its value
    xuse,      \* xuse[o]: use count of the shared_ptr control block of o
    xnat,      \* xnat[o]: shared_ptrs to o that native code holds
    xprox,     \* xprox[q]: the python object q: its state, its type, the object it holds
    xcopies,   \* calls of X's copy constructor made so far
    xlast      \* the last conversion: its input, its output, the counts before

objVars == <<rc, ext, kind, ptr, pc, pre, last>>

tupVars == <<tupRc, tupItems, itemRc, itemVal, retHeld, otherHeld, xptr, tpc, mode,
             targs, tpos, setPos, tpre, slotPre, tres, setRes, calls, ub, en, glast>>

modVars == <<finalized, module_methods, initCalls, initOk, finCalls, modLast>>

baseVars == <<inst, name, proxy, hostRefs, holder, g_Base, use_count, weakref, fpc, fn,
              obj, fp, fargs, fret, fres, nameLast, readFreed>>

callVars == <<apc, afunc, aargs, akw, anative, ares, aexc, aret, errFlag, escaped, aub>>

convVars == <<xobj, xuse, xnat, xprox, xcopies, xlast>>

vars == <<objVars, tupVars, modVars, baseVars, callVars, convVars>>

\* What the operations of each part leave alone.
nonObjVars == <<tupVars, modVars, baseVars, callVars, convVars>>

nonTupVars == <<objVars, modVars, baseVars, callVars, convVars>>

nonModVars == <<objVars, tupVars, baseVars, callVars, convVars>>

nonBaseVars == <<objVars, tupVars, modVars, callVars, convVars>>

nonCallVars == <<objVars, tupVars, modVars, baseVars, convVars>>

nonConvVars == <<objVars, tupVars, modVars, baseVars, callVars>>

Idle == [op |-> "idle", dst |-> "-", src |-> "-", step |-> "-", k |-> "-"]

NoOp == [op |-> "none", dst |-> "-", src |-> "-", h |-> NULL, old |-> NULL, k |-> "-", res |-> "-"]

\* Py_INCREF / Py_XINCREF on a count function.
Incref(r, p) == IF p = NULL THEN r ELSE [r EXCEPT ![p] = @ + 1]

\* Py_DECREF / Py_XDECREF: the object is deallocated when its count reaches 0.
Decref(r, p) == IF p = NULL THEN r ELSE [r EXCEPT ![p] = @ - 1]

\* An increment of p keeps the count within the model's bound.
CanIncref(p) == IF p = NULL THEN TRUE ELSE rc[p] < MaxRC

\* p is a handle a caller can pass: null, or an allocated object.
ValidArg(p) == IF p = NULL THEN TRUE ELSE rc[p] >= 1

Exists(w) == kind[w] # "absent"

InitObj ==
    /\ ext = [o \in Obj |-> IF o = "dct" THEN 0 ELSE 1]
    /\ rc = ext
    /\ kind = [w \in W |-> "absent"]
    /\ ptr = [w \in W |-> NULL]
    /\ pc = Idle
    /\ pre = rc
    /\ last = NoOp

\* Longest argument list given to py_tuple::make.
MaxLen == 2

\* Number of set_item calls the caller of make goes on to make.
MaxCalls == 1

ItemId == 1 .. (MaxLen + 1)

\* The value of an item id that names no allocated object.
Free == [type |-> "free", v |-> "-"]

\* No get_item has been called.
NoGet == [op |-> "none", pos |-> 0, n |-> 0, fresh |-> FALSE, res |-> "-", type |-> "-", err |-> "-"]

InitTup ==
    /\ tupRc = 0
    /\ tupItems = <<>>
    /\ itemRc = [i \in ItemId |-> 0]
    /\ itemVal = [i \in ItemId |-> Free]
    /\ retHeld = FALSE
    /\ otherHeld = FALSE
    /\ xptr = 0
    /\ tpc = "idle"
    /\ mode = "make"
    /\ targs = <<>>
    /\ tpos = 0
    /\ setPos = 0
    /\ tpre = itemRc
    /\ slotPre = <<>>
    /\ tres = "-"
    /\ setRes = "-"
    /\ calls = 0
    /\ ub = FALSE
    /\ en = 0
    /\ glast = NoGet

\* Largest number of functions registered, and of finalize() calls made.
MaxFuncs == 2

MaxFinalize == 3

\* Names registered by initthe_greatest_module.
FuncNames == {"add", "make_tuple", "make_derived"}

InitMod ==
    /\ finalized = FALSE
    /\ module_methods = <<>>
    /\ initCalls = 0
    /\ initOk = 0
    /\ finCalls = 0
    /\ modLast = [op |-> "none", res |-> "-", finBefore |-> 0, okBefore |-> 0, methodsBefore |-> <<>>,
                  initBefore |-> 0]

\* Bounds of the Base part: references python code holds on one proxy, and
\* the integers passed to and returned through f.
MaxHostRefs == 2

MaxN == 2

Names == {"p", "q"}

\* No python object (a NULL PyObject *).
NoRet == [type |-> "NULL", v |-> 0]

\* The record of a dispatch through PyBase::f that has just been entered.
NewDispatch(op, n) ==
    [op |-> op, n |-> n, entry |-> "-", lookedUp |-> FALSE, attr |-> "-", called |-> FALSE,
     calledWith |-> <<>>, ret |-> NoRet, res |-> "running", val |-> 0]

NoDispatch == [NewDispatch("none", 0) EXCEPT !.res = "-"]

InitBase ==
    /\ inst = "none"
    /\ name = "-"
    /\ proxy = "none"
    /\ hostRefs = 0
    /\ holder = FALSE
    /\ g_Base = FALSE
    /\ use_count = 0
    /\ weakref = "unset"
    /\ fpc = "idle"
    /\ fn = 0
    /\ obj = "unset"
    /\ fp = "unset"
    /\ fargs = <<>>
    /\ fret = NoRet
    /\ fres = NoDispatch
    /\ nameLast = [op |-> "none", res |-> "-", state |-> "-"]
    /\ readFreed = FALSE

\* The largest ssize_t of the model (ssize_t is -SsizeMax-1 .. SsizeMax).
SsizeMax == 6

Ssize == (0 - SsizeMax - 1) .. SsizeMax

\* A handle not returned yet, and the python object None.
Pending == [type |-> "pending", v |-> 0]

PyNone == [type |-> "NoneType", v |-> 0]

InitCall ==
    /\ apc = "idle"
    /\ afunc = "-"
    /\ aargs = <<>>
    /\ akw = 0
    /\ anative = <<>>
    /\ ares = 0
    /\ aexc = "none"
    /\ aret = Pending
    /\ errFlag = FALSE
    /\ escaped = FALSE
    /\ aub = FALSE

\* Bounds of the conversions: the values of X::x and the copies of X made.
MaxX == 1

MaxCopies == 2

\* The native objects, the python objects, and the numbers of shared_ptrs
\* native code may hold on one object.
ObjId == 1 .. 2

ProxyId == 1 .. 2

NativeCounts == 0 .. 2

\* X(i), and X(const X &x_) : x(x_.x).
XCtor(i) == [x |-> i]

XCopy(a) == [x |-> a.x]

XVals == {XCtor(i) : i \in 0 .. MaxX}

NoConv == [op |-> "none", T |-> "-", v |-> XCtor(0), q |-> 0, ptr |-> 0, made |-> "-",
           out |-> XCtor(0), outptr |-> 0, copiesBefore |-> 0, useBefore |-> 0, res |-> "-"]

InitConv ==
    /\ xobj = [o \in ObjId |-> [st |-> "free", T |-> "-", val |-> XCtor(0)]]
    /\ xuse = [o \in ObjId |-> 0]
    /\ xnat = [o \in ObjId |-> 0]
    /\ xprox = [q \in ProxyId |-> [st |-> "free", T |-> "-", holds |-> 0, ptr |-> 0, v |-> XCtor(0), made |-> "-"]]
    /\ xcopies = 0
    /\ xlast = NoConv

Init == InitObj /\ InitTup /\ InitMod /\ InitBase /\ InitCall /\ InitConv

(* ------------------------ py_object ------------------------------------ *)

\* Mutant of PyObjectCtor: the count is incremented whatever the flag says.
PyObjectCtor_AlwaysIncref(w, x, inc, k, opname, s) ==
    /\ pre' = rc
    /\ pc' = Idle
    /\ IF x = NULL
       THEN /\ last' = [op |-> opname, dst |-> w, src |-> s, h |-> x, old |-> NULL, k |-> k, res |-> "pyerr_occurred"]
            /\ UNCHANGED <<rc, kind, ptr>>
       ELSE /\ last' = [op |-> opname, dst |-> w, src |-> s, h |-> x, old |-> NULL, k |-> k, res |-> "ok"]
            /\ rc' = Incref(rc, x)
            /\ kind' = [kind EXCEPT ![w] = k]
            /\ ptr' = [ptr EXCEPT ![w] = x]

\* py_object::py_object(PyObject *x, bool increment_refcount), building
\* wrapper w of static type k; opname is the caller's name for the record.
PyObjectCtor(w, x, inc, k, opname, s) ==
    /\ pre' = rc
    /\ pc' = Idle
    /\ IF x = NULL
       THEN /\ last' = [op |-> opname, dst |-> w, src |-> s, h |-> x, old |-> NULL, k |-> k, res |-> "pyerr_occurred"]
            /\ UNCHANGED <<rc, kind, ptr>>
       ELSE /\ last' = [op |-> opname, dst |-> w, src |-> s, h |-> x, old |-> NULL, k |-> k, res |-> "ok"]
            /\ rc' = IF inc THEN Incref(rc, x) ELSE rc
            /\ kind' = [kind EXCEPT ![w] = k]
            /\ ptr' = [ptr EXCEPT ![w] = x]

\* py_object::py_object(): the default constructor produces Py_None.
DefaultConstruct(w) ==
    /\ pc.op = "idle" /\ ~Exists(w)
    /\ CanIncref("None")
    /\ PyObjectCtor(w, "None", TRUE, "object", "default", "-")
    /\ UNCHANGED ext
    /\ UNCHANGED nonObjVars

\* py_object::borrowed_reference(x)
BorrowedReference(w, x) ==
    /\ pc.op = "idle" /\ ~Exists(w)
    /\ ValidArg(x) /\ CanIncref(x)
    /\ PyObjectCtor(w, x, TRUE, "object", "borrowed_reference", "-")
    /\ UNCHANGED ext
    /\ UNCHANGED nonObjVars

\* py_object::new_reference(x): the caller hands over a reference it owns.
NewReference(w, x) ==
    /\ pc.op = "idle" /\ ~Exists(w)
    /\ IF x = NULL THEN TRUE ELSE ext[x] >= 1
    /\ PyObjectCtor(w, x, FALSE, "object", "new_reference", "-")
    /\ ext' = IF x = NULL THEN ext ELSE [ext EXCEPT ![x] = @ - 1]
    /\ UNCHANGED nonObjVars

\* py_dict::py_dict(): PyDict_New() returns a new dict (count 1) or NULL.
DictDefault(w) ==
    /\ pc.op = "idle" /\ ~Exists(w)
    /\ \E p \in {"dct", NULL} :
         /\ IF p = NULL THEN TRUE ELSE rc[p] = 0
         /\ pre' = rc
         /\ pc' = Idle
         /\ IF p = NULL
            THEN /\ last' = [op |-> "py_dict", dst |-> w, src |-> "-", h |-> NULL, old |-> NULL, k |-> "dict", res |-> "pyerr_occurred"]
                 /\ UNCHANGED <<rc, kind, ptr>>
            ELSE /\ last' = [op |-> "py_dict", dst |-> w, src |-> "-", h |-> p, old |-> NULL, k |-> "dict", res |-> "ok"]
                 /\ rc' = [rc EXCEPT ![p] = 1]
                 /\ kind' = [kind EXCEPT ![w] = "dict"]
                 /\ ptr' = [ptr EXCEPT ![w] = p]
    /\ UNCHANGED ext
    /\ UNCHANGED nonObjVars

\* py_object::py_object(const py_object &x); with k = kind[s] it is the
\* implicit copy constructor of py_tuple / py_dict, which calls it.
CopyConstruct(w, s, k) ==
    /\ pc.op = "idle" /\ ~Exists(w) /\ Exists(s)
    /\ k \in {"object", kind[s]}
    /\ CanIncref(ptr[s])
    /\ PyObjectCtor(w, ptr[s], TRUE, k, "copy", s)
    /\ UNCHANGED ext
    /\ UNCHANGED nonObjVars

\* py_object::py_object(py_object &&x)
MoveConstruct(w, s, k) ==
    /\ pc.op = "idle" /\ ~Exists(w) /\ Exists(s)
    /\ k \in {"object", kind[s]}
    /\ kind' = [kind EXCEPT ![w] = k]
    /\ ptr' = [ptr EXCEPT ![w] = ptr[s], ![s] = NULL]
    /\ pre' = rc
    /\ pc' = Idle
    /\ last' = [op |-> "move", dst |-> w, src |-> s, h |-> ptr[s], old |-> NULL, k |-> k, res |-> "ok"]
    /\ UNCHANGED <<rc, ext>>
    /\ UNCHANGED nonObjVars

\* py_object::~py_object()
Destroy(w) ==
    /\ pc.op = "idle" /\ Exists(w)
    /\ rc' = Decref(rc, ptr[w])
    /\ ptr' = [ptr EXCEPT ![w] = NULL]
    /\ kind' = [kind EXCEPT ![w] = "absent"]
    /\ pre' = rc
    /\ pc' = Idle
    /\ last' = [op |-> "destroy", dst |-> w, src |-> "-", h |-> ptr[w], old |-> ptr[w], k |-> kind[w], res |-> "ok"]
    /\ UNCHANGED ext
    /\ UNCHANGED nonObjVars

(* ------------------ py_tuple / py_dict construction --------------------- *)

\* py_tuple::py_tuple(const py_object &x) and py_tuple::py_tuple(py_object &&x)
\* (k = "tuple"), py_dict likewise (k = "dict"): the base is initialised by
\* py_object(x).  x is a named reference, an lvalue, in both constructors,
\* so both run the copy constructor.  rv tells which of the two was called.
ViewBase(w, s, k, rv) ==
    /\ pc.op = "idle" /\ ~Exists(w) /\ Exists(s)
    /\ CanIncref(ptr[s])
    /\ pre' = rc
    /\ IF ptr[s] = NULL
       THEN /\ last' = [op |-> IF rv THEN "view_rvalue" ELSE "view_const", dst |-> w, src |-> s,
                        h |-> NULL, old |-> NULL, k |-> k, res |-> "pyerr_occurred"]
            /\ pc' = Idle
            /\ UNCHANGED <<rc, ptr>>
       ELSE /\ last' = [op |-> IF rv THEN "view_rvalue" ELSE "view_const", dst |-> w, src |-> s,
                        h |-> ptr[s], old |-> NULL, k |-> k, res |-> "-"]
            /\ rc' = Incref(rc, ptr[s])
            /\ ptr' = [ptr EXCEPT ![w] = ptr[s]]
            /\ pc' = [op |-> "view", dst |-> w, src |-> s, step |-> "check", k |-> k]
    /\ UNCHANGED <<ext, kind>>
    /\ UNCHANGED nonObjVars

\* py_tuple::_check / py_dict::_check on the wrapper's handle.
TagMatches(k, p) == IF k = "tuple" THEN PyTuple_Check(p) ELSE PyDict_Check(p)

\* this->_check() in the constructor body: _throw() on a mismatch.
ViewCheck ==
    /\ pc.op = "view" /\ pc.step = "check"
    /\ IF TagMatches(pc.k, ptr[pc.dst])
       THEN /\ kind' = [kind EXCEPT ![pc.dst] = pc.k]
            /\ last' = [last EXCEPT !.res = "ok"]
            /\ pc' = Idle
       ELSE /\ pc' = [pc EXCEPT !.step = "unwind"]
            /\ UNCHANGED <<kind, last>>
    /\ UNCHANGED <<rc, ext, ptr, pre>>
    /\ UNCHANGED nonObjVars

\* Mutant of ViewUnwind: the half-built view's reference is not released.
ViewUnwind_NoRelease ==
    /\ pc.op = "view" /\ pc.step = "unwind"
    /\ ptr' = [ptr EXCEPT ![pc.dst] = NULL]
    /\ last' = [last EXCEPT !.res = "type_mismatch"]
    /\ pc' = Idle
    /\ UNCHANGED <<rc, ext, kind, pre>>
    /\ UNCHANGED nonObjVars

\* The exception leaves the constructor: the base subobject, fully built, is
\* destroyed by py_object::~py_object().
ViewUnwind ==
    /\ pc.op = "view" /\ pc.step = "unwind"
    /\ rc' = Decref(rc, ptr[pc.dst])
    /\ ptr' = [ptr EXCEPT ![pc.dst] = NULL]
    /\ last' = [last EXCEPT !.res = "type_mismatch"]
    /\ pc' = Idle
    /\ UNCHANGED <<ext, kind, pre>>
    /\ UNCHANGED nonObjVars

(* --------------------------- assignment -------------------------------- *)

\* Which operator= overload resolution picks for d = s: py_object's own for a
\* py_object d; for a py_tuple or py_dict d, the operator=(const py_object &) /
\* operator=(py_object &&) of the class (checked) when the argument has another
\* static type, and the implicit operator of the class, which calls
\* py_object's, when the argument has d's own type (not checked).
Overload(d, s, checked) ==
    IF kind[d] = "object" THEN ~checked
    ELSE IF kind[s] # kind[d] THEN checked
    ELSE TRUE

\* Injected fault: the new handle's count is not raised first.
AssignIncref_NoIncref(d, s, checked) ==
    /\ pc.op = "idle" /\ Exists(d) /\ Exists(s)
    /\ Overload(d, s, checked)
    /\ pre' = rc
    /\ last' = [op |-> "copy_assign", dst |-> d, src |-> s, h |-> ptr[s], old |-> ptr[d], k |-> IF checked THEN kind[d] ELSE "object", res |-> "-"]
    /\ pc' = [op |-> "copy_assign", dst |-> d, src |-> s, step |-> "decref",
              k |-> IF checked THEN kind[d] ELSE "object"]
    /\ UNCHANGED <<rc, ext, kind, ptr>>
    /\ UNCHANGED nonObjVars

\* operator=(const py_object &x), first statement: Py_XINCREF(x.ptr).
AssignIncref(d, s, checked) ==
    /\ pc.op = "idle" /\ Exists(d) /\ Exists(s)
    /\ Overload(d, s, checked)
    /\ CanIncref(ptr[s])
    /\ rc' = Incref(rc, ptr[s])
    /\ pre' = rc
    /\ last' = [op |-> "copy_assign", dst |-> d, src |-> s, h |-> ptr[s], old |-> ptr[d], k |-> IF checked THEN kind[d] ELSE "object", res |-> "-"]
    /\ pc' = [op |-> "copy_assign", dst |-> d, src |-> s, step |-> "decref",
              k |-> IF checked THEN kind[d] ELSE "object"]
    /\ UNCHANGED <<ext, kind, ptr>>
    /\ UNCHANGED nonObjVars

\* Second statement: Py_XDECREF(this->ptr).
AssignDecref ==
    /\ pc.op = "copy_assign" /\ pc.step = "decref"
    /\ rc' = Decref(rc, ptr[pc.dst])
    /\ pc' = [pc EXCEPT !.step = "store"]
    /\ UNCHANGED <<ext, kind, ptr, pre, last>>
    /\ UNCHANGED nonObjVars

\* Third statement: this->ptr = x.ptr; py_object's operator returns here.
AssignStore ==
    /\ pc.op = "copy_assign" /\ pc.step = "store"
    /\ ptr' = [ptr EXCEPT ![pc.dst] = ptr[pc.src]]
    /\ IF pc.k = "object"
       THEN pc' = Idle /\ last' = [last EXCEPT !.res = "ok"]
       ELSE pc' = [pc EXCEPT !.step = "check"] /\ UNCHANGED last
    /\ UNCHANGED <<rc, ext, kind, pre>>
    /\ UNCHANGED nonObjVars

\* operator=(py_object &&x), first statement: this->ptr = x.ptr.
MoveStore(d, s, checked) ==
    /\ pc.op = "idle" /\ Exists(d) /\ Exists(s)
    /\ Overload(d, s, checked)
    /\ ptr' = [ptr EXCEPT ![d] = ptr[s]]
    /\ pre' = rc
    /\ last' = [op |-> "move_assign", dst |-> d, src |-> s, h |-> ptr[s], old |-> ptr[d], k |-> IF checked THEN kind[d] ELSE "object", res |-> "-"]
    /\ pc' = [op |-> "move_assign", dst |-> d, src |-> s, step |-> "clear",
              k |-> IF checked THEN kind[d] ELSE "object"]
    /\ UNCHANGED <<rc, ext, kind>>
    /\ UNCHANGED nonObjVars

\* Second statement: x.ptr = NULL (x may be *this).
MoveClear ==
    /\ pc.op = "move_assign" /\ pc.step = "clear"
    /\ ptr' = [ptr EXCEPT ![pc.src] = NULL]
    /\ IF pc.k = "object"
       THEN pc' = Idle /\ last' = [last EXCEPT !.res = "ok"]
       ELSE pc' = [pc EXCEPT !.step = "check"] /\ UNCHANGED last
    /\ UNCHANGED <<rc, ext, kind, pre>>
    /\ UNCHANGED nonObjVars

\* this->_check() of py_tuple::operator= / py_dict::operator=.  The handle has
\* been stored already; _throw() leaves the wrapper holding it.  With a null
\* handle PyTuple_Check / PyDict_Check read through a null pointer: undefined
\* behaviour, any of a crash, a passed check and a failed check.
AssignCheck ==
    /\ pc.op \in {"copy_assign", "move_assign"} /\ pc.step = "check"
    /\ IF ptr[pc.dst] = NULL
       THEN \E out \in {"crash", "ok", "type_mismatch"} :
              /\ last' = [last EXCEPT !.res = out]
              /\ pc' = IF out = "crash" THEN [Idle EXCEPT !.op = "crashed"] ELSE Idle
       ELSE /\ last' = [last EXCEPT !.res = IF TagMatches(pc.k, ptr[pc.dst]) THEN "ok" ELSE "type_mismatch"]
            /\ pc' = Idle
    /\ UNCHANGED <<rc, ext, kind, ptr, pre>>
    /\ UNCHANGED nonObjVars

Kinds == {"object", "tuple", "dict"}

NextObj ==
    \/ \E w \in W : DefaultConstruct(w)
    \/ \E w \in W, x \in Handle : BorrowedReference(w, x)
    \/ \E w \in W, x \in Handle : NewReference(w, x)
    \/ \E w \in W : DictDefault(w)
    \/ \E w, s \in W, k \in Kinds : CopyConstruct(w, s, k)
    \/ \E w, s \in W, k \in Kinds : MoveConstruct(w, s, k)
    \/ \E w \in W : Destroy(w)
    \/ \E w, s \in W, k \in {"tuple", "dict"}, rv \in BOOLEAN : ViewBase(w, s, k, rv)
    \/ ViewCheck
    \/ ViewUnwind
    \/ \E d, s \in W, c \in BOOLEAN : AssignIncref(d, s, c)
    \/ AssignDecref
    \/ AssignStore
    \/ \E d, s \in W, c \in BOOLEAN : MoveStore(d, s, c)
    \/ MoveClear
    \/ AssignCheck

TypeOKObj ==
    /\ rc \in [Obj -> 0 .. MaxRC]
    /\ ext \in [Obj -> 0 .. 1]
    /\ kind \in [W -> Kinds \cup {"absent"}]
    /\ ptr \in [W -> Handle]

(* ------------------- claims on the wrappers (SpecObj) ------------------- *)

\* The counts of every object other than p are those of the operation's start.
OthersUnchanged(p) == \A o \in Obj \ {p} : rc[o] = pre[o]

\* C1: for a non-null handle h, borrowed_reference(h) and the default
\* constructor (h = Py_None) raise h's count by exactly 1, new_reference(h)
\* leaves it unchanged, and destroying a py_object that holds h lowers it by
\* exactly 1; no other count moves.
C1_ConstructDestroyCounts ==
    (pc.op = "idle" /\ last.res = "ok" /\ last.h # NULL) =>
        /\ last.op = "borrowed_reference" => (rc[last.h] = pre[last.h] + 1 /\ OthersUnchanged(last.h))
        /\ last.op = "default" => (last.h = "None" /\ rc["None"] = pre["None"] + 1 /\ OthersUnchanged("None"))
        /\ last.op = "new_reference" => rc = pre
        /\ last.op = "destroy" => (rc[last.h] = pre[last.h] - 1 /\ OthersUnchanged(last.h))

\* C1 witness: a py_object built by new_reference on the tuple has been
\* destroyed, taking the tuple's last reference with it.
C1_Witness ==
    /\ pc.op = "idle" /\ last.op = "destroy" /\ last.h = "tup"
    /\ pre["tup"] = 1 /\ rc["tup"] = 0 /\ ext["tup"] = 0

\* C2: every wrapper that exists holds a non-null handle, and a construction
\* from a null raw handle fails with pyerr_occurred and changes no count.
C2_HandleNeverNull ==
    /\ pc.op = "idle" => \A w \in W : Exists(w) => ptr[w] # NULL
    /\ (last.op \in {"borrowed_reference", "new_reference", "py_dict"} /\ last.h = NULL) =>
           (last.res = "pyerr_occurred" /\ rc = pre /\ ~Exists(last.dst))

\* C3: a wrapper assigned to itself, by copy or by move, still holds the object
\* it held, and that object's count is unchanged.
C3_SelfAssignment ==
    (pc.op = "idle" /\ last.op \in {"copy_assign", "move_assign"} /\ last.dst = last.src) =>
        (rc = pre /\ ptr[last.dst] = last.old)

\* C4: a py_tuple that holds an object holds a tuple and a py_dict that holds
\* an object holds a dict, whatever constructions and assignments were made
\* (between operations; the wrappers that hold no object at all are C2's).
C4_ViewTagInvariant ==
    pc.op = "idle" =>
        \A w \in W : (kind[w] \in {"tuple", "dict"} /\ ptr[w] # NULL) => TagMatches(kind[w], ptr[w])

\* C5: constructing a py_tuple or py_dict, by either constructor, from a
\* py_object whose tag does not match fails with TypeMismatch: the half-built
\* view holds one more reference while the exception unwinds, and once it has
\* propagated every count is what it was before and no view exists.
C5_MismatchedViewConstruction ==
    (last.op \in {"view_const", "view_rvalue"} /\ last.h # NULL /\ ~TagMatches(last.k, last.h)) =>
        /\ (pc.op = "view" /\ pc.step = "unwind") => rc[last.h] = pre[last.h] + 1
        /\ pc.op = "idle" => (last.res = "type_mismatch" /\ rc = pre /\ ~Exists(last.dst)
                              /\ ptr[last.dst] = NULL /\ ptr[last.src] = last.h)

\* C5 witness: py_tuple(py_object &&) was tried on a wrapper holding Py_None
\* and has failed.
C5_Witness ==
    /\ pc.op = "idle" /\ last.op = "view_rvalue" /\ last.k = "tuple" /\ last.h = "None"
    /\ last.res = "type_mismatch"

SpecObj == Init /\ [][NextObj]_vars

(* ----------------- py_tuple: make_empty, set_item, make ------------------ *)

\* The native values given to make: those of the registered make_tuple,
\* py_tuple::make(ssize_t(2), 3.5, string("hi")).
Native == {[t |-> "ssize_t", v |-> "2"], [t |-> "double", v |-> "3.5"], [t |-> "string", v |-> "hi"]}

\* converter<A>::to_python(a): the host object built from a native value.
ToPython(a) ==
    [type |-> CASE a.t = "ssize_t" -> "int" [] a.t = "double" -> "float" [] OTHER -> "str",
     v |-> a.v]

ArgLists == UNION {[1 .. n -> Native] : n \in 0 .. MaxLen}

\* n NULL slots: what PyTuple_New(n) allocates.
Nulls(n) == [i \in 1 .. n |-> 0]

\* An item id no object and no slot uses.
IsFresh(i) == itemVal[i] = Free /\ \A k \in DOMAIN tupItems : tupItems[k] # i

HasFresh == \E i \in ItemId : IsFresh(i)

FreshItem == CHOOSE i \in ItemId : IsFresh(i) /\ \A j \in ItemId : IsFresh(j) => i <= j

\* Py_DECREF on item i, n times; a count already at 0 is a freed object.
DecItemBy(r, i, n) == IF i = 0 THEN r ELSE [r EXCEPT ![i] = IF @ >= n THEN @ - n ELSE 0]

DecItem(r, i) == DecItemBy(r, i, 1)

\* Decrementing i by n touches a freed object.
DecIsUB(r, i, n) == i # 0 /\ n > 0 /\ r[i] < n

\* The objects whose count reached 0 are deallocated.
Sweep(val, r) == [i \in ItemId |-> IF r[i] = 0 THEN Free ELSE val[i]]

Occ(items, i) == Cardinality({k \in DOMAIN items : items[k] = i})

\* The tuple loses a reference; at 0 it is deallocated and releases its slots.
TupleRelease ==
    IF tupRc = 1
    THEN LET r == [i \in ItemId |-> IF itemRc[i] >= Occ(tupItems, i) THEN itemRc[i] - Occ(tupItems, i) ELSE 0]
         IN /\ tupRc' = 0
            /\ tupItems' = <<>>
            /\ itemRc' = r
            /\ itemVal' = Sweep(itemVal, r)
            /\ ub' = (ub \/ \E i \in ItemId : DecIsUB(itemRc, i, Occ(tupItems, i)))
    ELSE /\ tupRc' = tupRc - 1
         /\ UNCHANGED <<tupItems, itemRc, itemVal, ub>>

\* py_tuple::make(args...) is called: it calls make_empty(sizeof...(Args)).
MakeStart(args) ==
    /\ tpc = "idle"
    /\ targs' = args
    /\ tpos' = 0
    /\ mode' = "make"
    /\ en' = Len(args)
    /\ tpc' = "tuple_new"
    /\ UNCHANGED <<tupRc, tupItems, itemRc, itemVal, retHeld, otherHeld, xptr, setPos, tpre,
                   slotPre, tres, setRes, ub>>
    /\ UNCHANGED <<calls, glast>>
    /\ UNCHANGED nonTupVars

\* py_tuple t = py_tuple::make_empty(n) is called by the program itself.
MakeEmptyStart(n) ==
    /\ tpc = "idle"
    /\ targs' = <<>>
    /\ tpos' = 0
    /\ mode' = "empty"
    /\ en' = n
    /\ tpc' = "tuple_new"
    /\ UNCHANGED <<tupRc, tupItems, itemRc, itemVal, retHeld, otherHeld, xptr, setPos, tpre,
                   slotPre, tres, setRes, ub>>
    /\ UNCHANGED <<calls, glast>>
    /\ UNCHANGED nonTupVars

\* make_empty: new_reference(PyTuple_New(n)).  PyTuple_New returns a tuple of
\* n NULL slots with count 1, or NULL (always so when n < 0), and then
\* new_reference throws.
MakeEmptyNew ==
    /\ tpc = "tuple_new"
    /\ \E okNew \in BOOLEAN :
         IF okNew /\ en >= 0
         THEN /\ tupRc' = 1
              /\ tupItems' = Nulls(en)
              /\ tpc' = "empty_view"
              /\ UNCHANGED tres
         ELSE /\ tres' = "pyerr_occurred"
              /\ tpc' = "done"
              /\ UNCHANGED <<tupRc, tupItems>>
    /\ UNCHANGED <<itemRc, itemVal, retHeld, otherHeld, xptr, mode, targs, tpos, setPos, tpre,
                   slotPre, setRes, ub>>
    /\ UNCHANGED <<calls, en, glast>>
    /\ UNCHANGED nonTupVars

\* make_empty's return converts the py_object to py_tuple by
\* py_tuple(py_object &&): a copy (count 2), and _check passes.
MakeEmptyView ==
    /\ tpc = "empty_view"
    /\ tupRc' = tupRc + 1
    /\ retHeld' = TRUE
    /\ tpc' = "empty_tmp"
    /\ UNCHANGED <<tupItems, itemRc, itemVal, otherHeld, xptr, mode, targs, tpos, setPos, tpre,
                   slotPre, tres, setRes, ub>>
    /\ UNCHANGED <<calls, en, glast>>
    /\ UNCHANGED nonTupVars

\* The temporary py_object of make_empty is destroyed, and make_empty has
\* returned: to make, which goes on with _set_tuple, or to the program.
MakeEmptyTmpDtor ==
    /\ tpc = "empty_tmp"
    /\ tupRc' = tupRc - 1
    /\ IF mode = "empty"
       THEN tpc' = "done" /\ tres' = "ok"
       ELSE tpc' = "set_tuple" /\ UNCHANGED tres
    /\ UNCHANGED <<tupItems, itemRc, itemVal, retHeld, otherHeld, xptr, mode, targs, tpos, setPos,
                   tpre, slotPre, setRes, ub>>
    /\ UNCHANGED <<calls, en, glast>>
    /\ UNCHANGED nonTupVars

\* Mutant of SetTupleConvert: _set_tuple passes pos on without adding 1, so
\* every set_item is made at position 0.
SetTupleConvert_SamePos ==
    /\ tpc = "set_tuple" /\ tpos < Len(targs)
    /\ \E okConv \in BOOLEAN :
         IF okConv
         THEN /\ HasFresh
              /\ itemVal' = [itemVal EXCEPT ![FreshItem] = ToPython(targs[tpos + 1])]
              /\ itemRc' = [itemRc EXCEPT ![FreshItem] = 1]
              /\ xptr' = FreshItem
              /\ setPos' = 0
              /\ tpre' = itemRc'
              /\ slotPre' = tupItems
              /\ tpc' = "set_item"
              /\ UNCHANGED tres
         ELSE /\ tres' = "pyerr_occurred"
              /\ tpc' = "unwind_ret"
              /\ UNCHANGED <<itemVal, itemRc, xptr, setPos, tpre, slotPre>>
    /\ UNCHANGED <<tupRc, tupItems, retHeld, otherHeld, mode, targs, tpos, setRes, ub>>
    /\ UNCHANGED <<calls, en, glast>>
    /\ UNCHANGED nonTupVars

\* _set_tuple(t, pos, a, ap...): converter<A>::to_python(a) builds the
\* argument of set_item, a new object of count 1, or fails (a null handle:
\* pyerr_occurred), and t.set_item(pos, ...) is called.
SetTupleConvert ==
    /\ tpc = "set_tuple" /\ tpos < Len(targs)
    /\ \E okConv \in BOOLEAN :
         IF okConv
         THEN /\ HasFresh
              /\ itemVal' = [itemVal EXCEPT ![FreshItem] = ToPython(targs[tpos + 1])]
              /\ itemRc' = [itemRc EXCEPT ![FreshItem] = 1]
              /\ xptr' = FreshItem
              /\ setPos' = tpos
              /\ tpre' = itemRc'
              /\ slotPre' = tupItems
              /\ tpc' = "set_item"
              /\ UNCHANGED tres
         ELSE /\ tres' = "pyerr_occurred"
              /\ tpc' = "unwind_ret"
              /\ UNCHANGED <<itemVal, itemRc, xptr, setPos, tpre, slotPre>>
    /\ UNCHANGED <<tupRc, tupItems, retHeld, otherHeld, mode, targs, tpos, setRes, ub>>
    /\ UNCHANGED <<calls, en, glast>>
    /\ UNCHANGED nonTupVars

\* _set_tuple(t, pos) with no argument left, and make's return ret.
MakeReturn ==
    /\ tpc = "set_tuple" /\ tpos = Len(targs)
    /\ tres' = "ok"
    /\ tpc' = "done"
    /\ UNCHANGED <<tupRc, tupItems, itemRc, itemVal, retHeld, otherHeld, xptr, mode, targs, tpos,
                   setPos, tpre, slotPre, setRes, ub>>
    /\ UNCHANGED <<calls, en, glast>>
    /\ UNCHANGED nonTupVars

\* PyTuple_SetItem(op, i, newitem) fails when op is shared or i is out of range.
SetItemFails == tupRc # 1 \/ setPos < 0 \/ setPos >= Len(tupItems)

\* set_item, first statement: int err = PyTuple_SetItem(this->ptr, pos, x.ptr).
\* The host function takes over the caller's reference to newitem in both
\* cases: on success it stores newitem and releases the old item, on failure
\* it releases newitem and returns -1.
SetItemCall ==
    /\ tpc = "set_item"
    /\ IF SetItemFails
       THEN /\ itemRc' = DecItem(itemRc, xptr)
            /\ itemVal' = Sweep(itemVal, itemRc')
            /\ ub' = (ub \/ DecIsUB(itemRc, xptr, 1))
            /\ tpc' = "set_fail"
            /\ UNCHANGED tupItems
       ELSE /\ tupItems' = [tupItems EXCEPT ![setPos + 1] = xptr]
            /\ itemRc' = DecItem(itemRc, tupItems[setPos + 1])
            /\ itemVal' = Sweep(itemVal, itemRc')
            /\ ub' = (ub \/ DecIsUB(itemRc, tupItems[setPos + 1], 1))
            /\ tpc' = "set_ok"
    /\ UNCHANGED <<tupRc, retHeld, otherHeld, xptr, mode, targs, tpos, setPos, tpre, slotPre,
                   tres, setRes>>
    /\ UNCHANGED <<calls, en, glast>>
    /\ UNCHANGED nonTupVars

\* set_item, if (!err) Py_INCREF(x.ptr).
SetItemIncref ==
    /\ tpc = "set_ok"
    /\ itemRc' = [itemRc EXCEPT ![xptr] = @ + 1]
    /\ ub' = (ub \/ itemVal[xptr] = Free)
    /\ setRes' = "ok"
    /\ tpc' = "x_dtor"
    /\ UNCHANGED <<tupRc, tupItems, itemVal, retHeld, otherHeld, xptr, mode, targs, tpos, setPos,
                   tpre, slotPre, tres>>
    /\ UNCHANGED <<calls, en, glast>>
    /\ UNCHANGED nonTupVars

\* set_item, else throw pyerr_occurred().
SetItemThrow ==
    /\ tpc = "set_fail"
    /\ setRes' = "pyerr_occurred"
    /\ tpc' = "x_dtor"
    /\ UNCHANGED <<tupRc, tupItems, itemRc, itemVal, retHeld, otherHeld, xptr, mode, targs, tpos,
                   setPos, tpre, slotPre, tres, ub>>
    /\ UNCHANGED <<calls, en, glast>>
    /\ UNCHANGED nonTupVars

\* The py_object given to set_item is destroyed: at the end of the full
\* expression in _set_tuple, which then recurses with pos+1, or when the
\* exception unwinds; in the caller, at the end of its scope.
XDtor ==
    /\ tpc = "x_dtor"
    /\ itemRc' = DecItem(itemRc, xptr)
    /\ itemVal' = Sweep(itemVal, itemRc')
    /\ ub' = (ub \/ DecIsUB(itemRc, xptr, 1))
    /\ xptr' = 0
    /\ IF mode = "call"
       THEN tpc' = "done" /\ UNCHANGED <<tpos, tres>>
       ELSE IF setRes = "ok"
            THEN tpc' = "set_tuple" /\ tpos' = tpos + 1 /\ UNCHANGED tres
            ELSE tpc' = "unwind_ret" /\ tres' = "pyerr_occurred" /\ UNCHANGED tpos
    /\ UNCHANGED <<tupRc, tupItems, retHeld, otherHeld, mode, targs, setPos, tpre, slotPre, setRes>>
    /\ UNCHANGED <<calls, en, glast>>
    /\ UNCHANGED nonTupVars

\* Injected fault: the exception leaves make without ret being destroyed.
MakeUnwind_Leaks ==
    /\ tpc = "unwind_ret"
    /\ retHeld' = FALSE
    /\ tpc' = "done"
    /\ UNCHANGED <<tupRc, tupItems, itemRc, itemVal, ub>>
    /\ UNCHANGED <<otherHeld, xptr, mode, targs, tpos, setPos, tpre, slotPre, tres, setRes>>
    /\ UNCHANGED <<calls, en, glast>>
    /\ UNCHANGED nonTupVars

\* The exception leaves make: ret is destroyed.
MakeUnwind ==
    /\ tpc = "unwind_ret"
    /\ TupleRelease
    /\ retHeld' = FALSE
    /\ tpc' = "done"
    /\ UNCHANGED <<otherHeld, xptr, mode, targs, tpos, setPos, tpre, slotPre, tres, setRes>>
    /\ UNCHANGED <<calls, en, glast>>
    /\ UNCHANGED nonTupVars

(* The caller of make: it copies the tuple it got, reads and sets slots.    *)

\* A second py_tuple is copy-constructed from t.
ShareTuple ==
    /\ tpc = "done" /\ retHeld /\ ~otherHeld
    /\ otherHeld' = TRUE
    /\ tupRc' = tupRc + 1
    /\ mode' = "call"
    /\ UNCHANGED <<tupItems, itemRc, itemVal, retHeld, xptr, tpc, targs, tpos, setPos, tpre,
                   slotPre, tres, setRes, ub>>
    /\ UNCHANGED <<calls, en, glast>>
    /\ UNCHANGED nonTupVars

\* The second py_tuple is destroyed.
UnshareTuple ==
    /\ tpc = "done" /\ retHeld /\ otherHeld
    /\ otherHeld' = FALSE
    /\ tupRc' = tupRc - 1
    /\ UNCHANGED <<tupItems, itemRc, itemVal, retHeld, xptr, tpc, mode, targs, tpos, setPos, tpre,
                   slotPre, tres, setRes, ub>>
    /\ UNCHANGED <<calls, en, glast>>
    /\ UNCHANGED nonTupVars

\* py_object x = t.get_item(j): borrowed_reference(PyTuple_GetItem(ptr, j)).
\* PyTuple_GetItem returns the slot's content, which is NULL for a slot
\* nothing was stored in, or NULL with IndexError set when j is out of range;
\* py_object(PyObject *, bool) throws pyerr_occurred on NULL and takes a
\* reference otherwise.
CallerGetItem(j) ==
    /\ tpc = "done" /\ retHeld /\ ~ub /\ calls < MaxCalls
    /\ LET inRange == j >= 0 /\ j < Len(tupItems)
           p == IF inRange THEN tupItems[j + 1] ELSE 0
       IN /\ glast' = [op |-> "get_item", pos |-> j, n |-> Len(tupItems),
                       fresh |-> (mode = "empty"),
                       res |-> IF p # 0 THEN "ok" ELSE "pyerr_occurred",
                       type |-> IF p # 0 THEN itemVal[p].type ELSE "NULL",
                       err |-> IF inRange THEN "none" ELSE "IndexError"]
          /\ IF p # 0
             THEN /\ xptr' = p
                  /\ itemRc' = [itemRc EXCEPT ![p] = @ + 1]
                  /\ tpc' = "have_x"
             ELSE UNCHANGED <<xptr, itemRc, tpc>>
    /\ mode' = "call"
    /\ UNCHANGED <<tupRc, tupItems, itemVal, retHeld, otherHeld, targs, tpos, setPos, tpre,
                   slotPre, tres, setRes, ub>>
    /\ UNCHANGED <<calls, en>>
    /\ UNCHANGED nonTupVars

\* py_object x = converter<A>::to_python(a): a new object of count 1.
CallerToPython(a) ==
    /\ tpc = "done" /\ retHeld /\ ~ub /\ calls < MaxCalls
    /\ HasFresh
    /\ itemVal' = [itemVal EXCEPT ![FreshItem] = ToPython(a)]
    /\ itemRc' = [itemRc EXCEPT ![FreshItem] = 1]
    /\ xptr' = FreshItem
    /\ mode' = "call"
    /\ tpc' = "have_x"
    /\ UNCHANGED <<tupRc, tupItems, retHeld, otherHeld, targs, tpos, setPos, tpre, slotPre, tres,
                   setRes, ub>>
    /\ UNCHANGED <<calls, en, glast>>
    /\ UNCHANGED nonTupVars

\* t.set_item(pos, x) is called.
CallerSetItem(pos) ==
    /\ tpc = "have_x" /\ calls < MaxCalls
    /\ calls' = calls + 1
    /\ setPos' = pos
    /\ tpre' = itemRc
    /\ slotPre' = tupItems
    /\ tpc' = "set_item"
    /\ UNCHANGED <<tupRc, tupItems, itemRc, itemVal, retHeld, otherHeld, xptr, mode, targs, tpos,
                   tres, setRes, ub>>
    /\ UNCHANGED <<en, glast>>
    /\ UNCHANGED nonTupVars

\* The use of a freed object is undefined: the program may stop at any point after it.
Crash ==
    /\ ub /\ tpc # "crashed"
    /\ tpc' = "crashed"
    /\ UNCHANGED <<tupRc, tupItems, itemRc, itemVal, retHeld, otherHeld, xptr, mode, targs, tpos,
                   setPos, tpre, slotPre, tres, setRes, ub>>
    /\ UNCHANGED <<calls, en, glast>>
    /\ UNCHANGED nonTupVars

NextTup ==
    \/ \E args \in ArgLists : MakeStart(args)
    \/ \E n \in -1 .. MaxLen : MakeEmptyStart(n)
    \/ MakeEmptyNew
    \/ MakeEmptyView
    \/ MakeEmptyTmpDtor
    \/ SetTupleConvert
    \/ MakeReturn
    \/ SetItemCall
    \/ SetItemIncref
    \/ SetItemThrow
    \/ XDtor
    \/ MakeUnwind
    \/ ShareTuple
    \/ UnshareTuple
    \/ \E j \in -1 .. MaxLen : CallerGetItem(j)
    \/ \E a \in Native : CallerToPython(a)
    \/ \E pos \in -1 .. MaxLen : CallerSetItem(pos)
    \/ Crash

(* ---------------- claims on the tuple builders (SpecTup) ----------------- *)

\* C6: when set_item(pos, x) has returned, the slot holds x's object and the
\* object's count is one higher than before the call; when it has thrown
\* pyerr_occurred, the object's count is what it was before the call, so that
\* x still owns the reference its destructor is about to release.
C6_SetItemOwnership ==
    tpc = "x_dtor" =>
        /\ setRes = "ok" => (tupItems[setPos + 1] = xptr /\ itemRc[xptr] = tpre[xptr] + 1)
        /\ setRes = "pyerr_occurred" => (itemRc[xptr] = tpre[xptr] /\ tupItems = slotPre)

\* C7: when make(a1, ..., an) returns, ret holds a tuple of n slots, and slot i
\* holds an object whose value is to_python(a_i), owned by the slot alone.
C7_MakeBuildsTuple ==
    (mode = "make" /\ tpc = "done" /\ tres = "ok") =>
        /\ retHeld /\ tupRc = 1
        /\ Len(tupItems) = Len(targs)
        /\ \A i \in 1 .. Len(targs) :
             /\ tupItems[i] # 0
             /\ itemVal[tupItems[i]] = ToPython(targs[i])
             /\ itemRc[tupItems[i]] = 1
        /\ \A i, j \in 1 .. Len(targs) : i # j => tupItems[i] # tupItems[j]

\* C7 witness: make has returned a tuple built from MaxLen arguments of
\* different types.
C7_Witness ==
    /\ mode = "make" /\ tpc = "done" /\ tres = "ok"
    /\ Len(targs) = MaxLen /\ targs[1] # targs[MaxLen]
    /\ itemVal[tupItems[MaxLen]] = ToPython(targs[MaxLen])

SpecTup == Init /\ [][NextTup]_vars

(* -------------------------- extension_module ----------------------------- *)

\* Mutant of add_function: the finalized flag is not looked at.
add_function_NoGuard(func_name) ==
    /\ Len(module_methods) < MaxFuncs
    /\ module_methods' = Append(module_methods, func_name)
    /\ modLast' = [op |-> "add_function", res |-> "ok", finBefore |-> finCalls, okBefore |-> initOk,
                   methodsBefore |-> module_methods, initBefore |-> initCalls]
    /\ UNCHANGED <<finalized, initCalls, initOk, finCalls>>
    /\ UNCHANGED nonModVars

\* extension_module::add_function(func_name, func_docstring, func)
add_function(func_name) ==
    /\ IF finalized THEN TRUE ELSE Len(module_methods) < MaxFuncs
    /\ IF finalized
       THEN /\ modLast' = [op |-> "add_function", res |-> "AlreadyFinalized", finBefore |-> finCalls,
                           okBefore |-> initOk, methodsBefore |-> module_methods,
                           initBefore |-> initCalls]
            /\ UNCHANGED module_methods
       ELSE /\ module_methods' = Append(module_methods, func_name)
            /\ modLast' = [op |-> "add_function", res |-> "ok", finBefore |-> finCalls,
                           okBefore |-> initOk, methodsBefore |-> module_methods,
                           initBefore |-> initCalls]
    /\ UNCHANGED <<finalized, initCalls, initOk, finCalls>>
    /\ UNCHANGED nonModVars

\* extension_module::finalize(): Py_InitModule3 returns the module, or NULL;
\* finalized is set only past the test of its result.
finalize ==
    /\ finCalls < MaxFinalize
    /\ finCalls' = finCalls + 1
    /\ IF finalized
       THEN /\ modLast' = [op |-> "finalize", res |-> "DoubleFinalize", finBefore |-> finCalls,
                           okBefore |-> initOk, methodsBefore |-> module_methods,
                           initBefore |-> initCalls]
            /\ UNCHANGED <<finalized, initCalls, initOk>>
       ELSE \E m \in {"module", NULL} :
              /\ initCalls' = initCalls + 1
              /\ IF m = NULL
                 THEN /\ modLast' = [op |-> "finalize", res |-> "InitModuleFailed",
                                     finBefore |-> finCalls, okBefore |-> initOk,
                                     methodsBefore |-> module_methods, initBefore |-> initCalls]
                      /\ UNCHANGED <<finalized, initOk>>
                 ELSE /\ finalized' = TRUE
                      /\ initOk' = initOk + 1
                      /\ modLast' = [op |-> "finalize", res |-> "ok", finBefore |-> finCalls,
                                     okBefore |-> initOk, methodsBefore |-> module_methods,
                                     initBefore |-> initCalls]
    /\ UNCHANGED module_methods
    /\ UNCHANGED nonModVars

NextMod ==
    \/ \E f \in FuncNames : add_function(f)
    \/ finalize

\* C8: every add_function() made after a finalize() call fails with
\* AlreadyFinalized and registers nothing, every finalize() made after an
\* earlier finalize() call fails with DoubleFinalize, and Py_InitModule3 is
\* called at most once.
C8_AfterAnyFinalize ==
    /\ (modLast.op = "add_function" /\ modLast.finBefore >= 1) =>
           (modLast.res = "AlreadyFinalized" /\ module_methods = modLast.methodsBefore)
    /\ (modLast.op = "finalize" /\ modLast.finBefore >= 1) => modLast.res = "DoubleFinalize"
    /\ initCalls <= 1

\* C8 as amended: the same of the calls made after a finalize() that
\* succeeded; a finalize() that fails with DoubleFinalize does not call
\* Py_InitModule3, which returns a module at most once.
C8_AfterSuccessfulFinalize ==
    /\ (modLast.op = "add_function" /\ modLast.okBefore >= 1) =>
           (modLast.res = "AlreadyFinalized" /\ module_methods = modLast.methodsBefore)
    /\ (modLast.op = "finalize" /\ modLast.okBefore >= 1) =>
           (modLast.res = "DoubleFinalize" /\ initCalls = modLast.initBefore)
    /\ (modLast.op = "add_function" /\ modLast.okBefore = 0) =>
           (modLast.res = "ok" /\ Len(module_methods) = Len(modLast.methodsBefore) + 1)
    /\ initOk <= 1
    /\ finalized <=> initOk = 1

\* C8 witness: add_function has been refused after a finalize() that
\* succeeded, itself made after a finalize() that failed.
C8_Witness ==
    /\ modLast.op = "add_function" /\ modLast.res = "AlreadyFinalized"
    /\ initCalls = 2 /\ initOk = 1 /\ Len(module_methods) = 1

SpecMod == Init /\ [][NextMod]_vars

(* ------------------- Base, PyBase, g_Base ------------------------------- *)

\* The locals of PyBase::f and its position.
fLocals == <<fpc, fn, obj, fp, fargs, fret>>

\* Python code is running: no native call is in progress, or PyBase::f is
\* inside the call of the python override.
HostRuns == fpc \in {"idle", "call"}

\* The state of the instance (spec 4.5, "State machine for an instance").
InstState ==
    CASE inst = "none" -> "NoInstance"
      [] inst = "constructing" -> "Constructing"
      [] inst = "destroyed" -> "Destroyed"
      [] proxy = "dead" -> "OverrideDetached"
      [] OTHER -> "Live"

\* Python constructs a subclass of Base: the constructor registered with
\* Base_type runs new PyBase(self, name), which stores the name and makes
\* the weak reference to self.  The caller holds the only reference to self.
Base_constructor(nm) ==
    /\ fpc = "idle"
    /\ inst = "none"
    /\ inst' = "constructing"
    /\ name' = nm
    /\ proxy' = "alive"
    /\ hostRefs' = 1
    /\ weakref' = "proxy"
    /\ UNCHANGED <<holder, g_Base, use_count, fLocals, fres, nameLast, readFreed>>
    /\ UNCHANGED nonBaseVars

\* The type binding wraps the pointer the constructor returned in a
\* shared_ptr<Base> kept in the proxy's storage.
StoreHolder ==
    /\ inst = "constructing"
    /\ inst' = "alive"
    /\ holder' = TRUE
    /\ use_count' = 1
    /\ UNCHANGED <<name, proxy, hostRefs, g_Base, weakref, fLocals, fres, nameLast, readFreed>>
    /\ UNCHANGED nonBaseVars

\* The proxy's reference count reaches zero: the weak references to it are
\* cleared and its storage releases its shared_ptr<Base>; the instance is
\* destroyed if that was the last owner.
ProxyDealloc ==
    /\ proxy' = "dead"
    /\ weakref' = "cleared"
    /\ holder' = FALSE
    /\ use_count' = use_count - 1
    /\ inst' = IF use_count = 1 THEN "destroyed" ELSE inst

\* Python code takes one more reference to the proxy.
HostIncref ==
    /\ HostRuns
    /\ inst = "alive"
    /\ hostRefs >= 1
    /\ hostRefs < MaxHostRefs
    /\ hostRefs' = hostRefs + 1
    /\ UNCHANGED <<inst, name, proxy, holder, g_Base, use_count, weakref, fLocals, fres,
                   nameLast, readFreed>>
    /\ UNCHANGED nonBaseVars

\* Python code drops a reference to the proxy; the proxy is deallocated
\* when that was the last one (f's local obj is one too).
HostDecref ==
    /\ HostRuns
    /\ inst = "alive"
    /\ hostRefs >= 1
    /\ hostRefs' = hostRefs - 1
    /\ IF hostRefs = 1 /\ obj # "proxy"
       THEN ProxyDealloc
       ELSE UNCHANGED <<proxy, weakref, holder, use_count, inst>>
    /\ UNCHANGED <<name, g_Base, fLocals, fres, nameLast, readFreed>>
    /\ UNCHANGED nonBaseVars

\* Injected fault: g_Base records the instance without owning it.
set_global_Base_NotAnOwner ==
    /\ HostRuns
    /\ inst = "alive"
    /\ hostRefs >= 1
    /\ g_Base' = TRUE
    /\ UNCHANGED <<inst, name, proxy, hostRefs, holder, use_count, weakref, fLocals, fres,
                   nameLast, readFreed>>
    /\ UNCHANGED nonBaseVars

\* set_global_Base(b), b converted from the proxy python passes:
\* g_Base = b makes g_Base one more owner (no change if it was one already).
set_global_Base ==
    /\ HostRuns
    /\ inst = "alive"
    /\ hostRefs >= 1
    /\ g_Base' = TRUE
    /\ use_count' = IF g_Base THEN use_count ELSE use_count + 1
    /\ UNCHANGED <<inst, name, proxy, hostRefs, holder, weakref, fLocals, fres, nameLast,
                   readFreed>>
    /\ UNCHANGED nonBaseVars

\* Injected fault: clear_global_Base deletes the instance it points to.
clear_global_Base_Deletes ==
    /\ HostRuns
    /\ g_Base' = FALSE
    /\ IF g_Base
       THEN /\ use_count' = use_count - 1
            /\ inst' = "destroyed"
       ELSE UNCHANGED <<use_count, inst>>
    /\ UNCHANGED <<name, proxy, hostRefs, holder, weakref, fLocals, fres, nameLast, readFreed>>
    /\ UNCHANGED nonBaseVars

\* clear_global_Base(): g_Base.reset(); the instance is destroyed if g_Base
\* was its last owner.
clear_global_Base ==
    /\ HostRuns
    /\ g_Base' = FALSE
    /\ IF g_Base
       THEN /\ use_count' = use_count - 1
            /\ inst' = IF use_count = 1 THEN "destroyed" ELSE inst
       ELSE UNCHANGED <<use_count, inst>>
    /\ UNCHANGED <<name, proxy, hostRefs, holder, weakref, fLocals, fres, nameLast, readFreed>>
    /\ UNCHANGED nonBaseVars

\* Base::get_name(), called through g_Base by native code or through the
\* proxy by python code: it reads the instance only.
get_name ==
    /\ HostRuns
    /\ inst \in {"alive", "destroyed"}
    /\ IF g_Base THEN TRUE ELSE hostRefs >= 1
    /\ nameLast' = [op |-> "get_name", res |-> IF inst = "alive" THEN name ELSE "?",
                    state |-> InstState]
    /\ readFreed' = IF inst = "alive" THEN readFreed ELSE TRUE
    /\ UNCHANGED <<inst, name, proxy, hostRefs, holder, g_Base, use_count, weakref, fLocals,
                   fres>>
    /\ UNCHANGED nonBaseVars

\* converter<ssize_t>::to_python(n): the python int of value n.
IntToPython(n) == [type |-> "int", v |-> n]

\* converter<ssize_t>::from_python(x, where): the value of a python int;
\* anything else is refused.
FromPython(x) ==
    IF x.type = "int" THEN [ok |-> TRUE, val |-> x.v] ELSE [ok |-> FALSE, val |-> 0]

\* What a python override may return.
Returns == {IntToPython(k) : k \in 0 .. MaxN} \cup {[type |-> "str", v |-> 0]}

\* py_weakref::dereference(): the referent while it is alive, otherwise None.
Dereference == IF weakref = "proxy" THEN "proxy" ELSE "None"

\* f_global_Base(n): g_Base ? g_Base->f(n) : 0.
f_global_Base(n) ==
    /\ fpc = "idle"
    /\ IF ~g_Base
       THEN /\ fres' = [NewDispatch("f_global_Base", n) EXCEPT !.res = "no_dispatch"]
            /\ UNCHANGED <<fLocals, readFreed>>
       ELSE IF inst # "alive"
            THEN /\ fres' = [NewDispatch("f_global_Base", n) EXCEPT !.res = "crash"]
                 /\ readFreed' = TRUE
                 /\ UNCHANGED fLocals
            ELSE /\ fres' = NewDispatch("f_global_Base", n)
                 /\ fpc' = "deref"
                 /\ fn' = n
                 /\ UNCHANGED <<obj, fp, fargs, fret, readFreed>>
    /\ UNCHANGED <<inst, name, proxy, hostRefs, holder, g_Base, use_count, weakref, nameLast>>
    /\ UNCHANGED nonBaseVars

\* Python calls the method f_cpp of the proxy: Base::f_cpp(n) calls f(n).
f_cpp(n) ==
    /\ fpc = "idle"
    /\ inst = "alive"
    /\ hostRefs >= 1
    /\ fres' = NewDispatch("f_cpp", n)
    /\ fpc' = "deref"
    /\ fn' = n
    /\ UNCHANGED <<obj, fp, fargs, fret, readFreed>>
    /\ UNCHANGED <<inst, name, proxy, hostRefs, holder, g_Base, use_count, weakref, nameLast>>
    /\ UNCHANGED nonBaseVars

\* py_object obj = weakref.dereference();
FDeref ==
    /\ fpc = "deref"
    /\ obj' = Dereference
    /\ fres' = [fres EXCEPT !.entry = proxy]
    /\ readFreed' = IF Dereference = "proxy" /\ proxy # "alive" THEN TRUE ELSE readFreed
    /\ fpc' = "check"
    /\ UNCHANGED <<fn, fp, fargs, fret>>
    /\ UNCHANGED <<inst, name, proxy, hostRefs, holder, g_Base, use_count, weakref, nameLast>>
    /\ UNCHANGED nonBaseVars

\* Injected fault: the test of obj.is_none() is left out.
FCheckNone_Skipped ==
    /\ fpc = "check"
    /\ fpc' = "getattr"
    /\ UNCHANGED <<fn, obj, fp, fargs, fret, fres, readFreed>>
    /\ UNCHANGED <<inst, name, proxy, hostRefs, holder, g_Base, use_count, weakref, nameLast>>
    /\ UNCHANGED nonBaseVars

\* if (obj.is_none()) throw runtime_error("... weak reference expired!");
FCheckNone ==
    /\ fpc = "check"
    /\ IF obj = "None"
       THEN /\ fres' = [fres EXCEPT !.res = "DanglingOverrideReference"]
            /\ fpc' = "exit"
       ELSE /\ fpc' = "getattr"
            /\ UNCHANGED fres
    /\ UNCHANGED <<fn, obj, fp, fargs, fret, readFreed>>
    /\ UNCHANGED <<inst, name, proxy, hostRefs, holder, g_Base, use_count, weakref, nameLast>>
    /\ UNCHANGED nonBaseVars

\* fp = PyObject_GetAttrString(obj.ptr, "f"); if (!fp) throw runtime_error(...);
\* func = new_reference(fp).  Whether the proxy has the attribute is python's
\* business; None has no attribute f.
FGetAttr ==
    /\ fpc = "getattr"
    /\ \E a \in (IF obj = "proxy" THEN {"NULL", "callable"} ELSE {"NULL"}) :
          /\ fp' = a
          /\ IF a = "NULL"
             THEN /\ fres' = [fres EXCEPT !.lookedUp = TRUE, !.attr = a,
                                          !.res = "OverrideNotFound"]
                  /\ fpc' = "exit"
             ELSE /\ fres' = [fres EXCEPT !.lookedUp = TRUE, !.attr = a]
                  /\ fpc' = "make"
    /\ UNCHANGED <<fn, obj, fargs, fret, readFreed>>
    /\ UNCHANGED <<inst, name, proxy, hostRefs, holder, g_Base, use_count, weakref, nameLast>>
    /\ UNCHANGED nonBaseVars

\* py_tuple args = py_tuple::make(n): the tuple (n), or pyerr_occurred when
\* python cannot allocate it.
FMakeArgs ==
    /\ fpc = "make"
    /\ \E ok \in BOOLEAN :
          IF ok
          THEN /\ fargs' = <<IntToPython(fn)>>
               /\ fpc' = "invoke"
               /\ UNCHANGED fres
          ELSE /\ fres' = [fres EXCEPT !.res = "pyerr_occurred"]
               /\ fpc' = "exit"
               /\ UNCHANGED fargs
    /\ UNCHANGED <<fn, obj, fp, fret, readFreed>>
    /\ UNCHANGED <<inst, name, proxy, hostRefs, holder, g_Base, use_count, weakref, nameLast>>
    /\ UNCHANGED nonBaseVars

\* func.call(args): PyObject_Call(ptr, args.ptr, NULL) enters the override.
FCallEnter ==
    /\ fpc = "invoke"
    /\ fres' = [fres EXCEPT !.called = TRUE, !.calledWith = fargs]
    /\ fpc' = "call"
    /\ UNCHANGED <<fn, obj, fp, fargs, fret, readFreed>>
    /\ UNCHANGED <<inst, name, proxy, hostRefs, holder, g_Base, use_count, weakref, nameLast>>
    /\ UNCHANGED nonBaseVars

\* The override returns an object, or raises: PyObject_Call returns NULL and
\* new_reference(NULL) throws pyerr_occurred.
FCallReturn ==
    /\ fpc = "call"
    /\ \E r \in Returns \cup {NoRet} :
          IF r = NoRet
          THEN /\ fres' = [fres EXCEPT !.res = "pyerr_occurred"]
               /\ fpc' = "exit"
               /\ UNCHANGED fret
          ELSE /\ fret' = r
               /\ fres' = [fres EXCEPT !.ret = r]
               /\ fpc' = "convert"
    /\ UNCHANGED <<fn, obj, fp, fargs, readFreed>>
    /\ UNCHANGED <<inst, name, proxy, hostRefs, holder, g_Base, use_count, weakref, nameLast>>
    /\ UNCHANGED nonBaseVars

\* return converter<ssize_t>::from_python(func.call(args), "Base.f");
FConvert ==
    /\ fpc = "convert"
    /\ fres' = IF FromPython(fret).ok
               THEN [fres EXCEPT !.res = "ok", !.val = FromPython(fret).val]
               ELSE [fres EXCEPT !.res = "TypeMismatch"]
    /\ fpc' = "exit"
    /\ UNCHANGED <<fn, obj, fp, fargs, fret, readFreed>>
    /\ UNCHANGED <<inst, name, proxy, hostRefs, holder, g_Base, use_count, weakref, nameLast>>
    /\ UNCHANGED nonBaseVars

\* Injected fault: obj's reference to the proxy outlives the dispatch.
FExit_KeepsObj ==
    /\ fpc = "exit"
    /\ fpc' = "idle"
    /\ fp' = "unset"
    /\ fargs' = <<>>
    /\ fret' = NoRet
    /\ UNCHANGED <<obj, proxy, weakref, holder, use_count, inst>>
    /\ UNCHANGED <<fn, fres, readFreed, name, hostRefs, g_Base, nameLast>>
    /\ UNCHANGED nonBaseVars

\* f returns or throws: args, func and obj are destroyed; obj may hold the
\* last reference to the proxy.
FExit ==
    /\ fpc = "exit"
    /\ fpc' = "idle"
    /\ obj' = "unset"
    /\ fp' = "unset"
    /\ fargs' = <<>>
    /\ fret' = NoRet
    /\ IF obj = "proxy" /\ hostRefs = 0
       THEN ProxyDealloc
       ELSE UNCHANGED <<proxy, weakref, holder, use_count, inst>>
    /\ UNCHANGED <<fn, fres, readFreed, name, hostRefs, g_Base, nameLast>>
    /\ UNCHANGED nonBaseVars

NextBase ==
    \/ \E nm \in Names : Base_constructor(nm)
    \/ StoreHolder
    \/ HostIncref
    \/ HostDecref
    \/ set_global_Base
    \/ clear_global_Base
    \/ get_name
    \/ \E n \in 1 .. MaxN : f_global_Base(n)
    \/ \E n \in 1 .. MaxN : f_cpp(n)
    \/ FDeref
    \/ FCheckNone
    \/ FGetAttr
    \/ FMakeArgs
    \/ FCallEnter
    \/ FCallReturn
    \/ FConvert
    \/ FExit

SpecBase == Init /\ [][NextBase]_vars

\* A dispatch through PyBase::f has finished and its outcome is recorded.
Finished == fpc = "idle" /\ fres.res \notin {"-", "running", "no_dispatch"}

\* C9: PyBase::f(n) has exactly three outcomes, decided in this order:
\* DanglingOverrideReference, without any attribute lookup, if the proxy has
\* been destroyed; otherwise OverrideNotFound, without any call, if the live
\* proxy has no attribute "f"; otherwise the attribute is called with the
\* one-element sequence (n) and its result, converted to the native return
\* type, is returned.
C9_ThreeOutcomes ==
    Finished =>
        /\ fres.entry = "dead" =>
               (fres.res = "DanglingOverrideReference" /\ ~fres.lookedUp /\ ~fres.called)
        /\ (fres.entry = "alive" /\ fres.attr = "NULL") =>
               (fres.res = "OverrideNotFound" /\ fres.lookedUp /\ ~fres.called)
        /\ (fres.entry = "alive" /\ fres.attr = "callable") =>
               /\ fres.called
               /\ fres.calledWith = <<IntToPython(fres.n)>>
               /\ fres.res = "ok"
               /\ FromPython(fres.ret).ok
               /\ fres.val = FromPython(fres.ret).val

\* C9 as amended: the first two outcomes as stated; with a live proxy that
\* has the attribute, f either fails with pyerr_occurred before calling
\* anything (the argument tuple could not be built), or calls the attribute
\* with the one-element sequence (n) and then fails with pyerr_occurred
\* (the call raised), fails with TypeMismatch (the result is not an
\* integer), or returns the converted result.
C9_DispatchOutcomes ==
    Finished =>
        /\ fres.entry \in {"alive", "dead"}
        /\ fres.entry = "dead" =>
               (fres.res = "DanglingOverrideReference" /\ ~fres.lookedUp /\ ~fres.called)
        /\ (fres.entry = "alive" /\ fres.attr = "NULL") =>
               (fres.res = "OverrideNotFound" /\ fres.lookedUp /\ ~fres.called)
        /\ (fres.entry = "alive" /\ fres.attr = "callable") =>
               /\ fres.lookedUp
               /\ IF ~fres.called
                  THEN fres.res = "pyerr_occurred"
                  ELSE /\ fres.calledWith = <<IntToPython(fres.n)>>
                       /\ IF fres.ret = NoRet
                          THEN fres.res = "pyerr_occurred"
                          ELSE IF FromPython(fres.ret).ok
                               THEN fres.res = "ok" /\ fres.val = FromPython(fres.ret).val
                               ELSE fres.res = "TypeMismatch"
        /\ fres.entry = "alive" => fres.attr \in {"NULL", "callable"}

\* C9 witness: a dispatch entered with n = MaxN on a live proxy has called
\* the override with (n) and returned its result, another integer.
C9_Witness ==
    /\ Finished
    /\ fres.res = "ok" /\ fres.n = MaxN /\ fres.val = 1
    /\ fres.calledWith = <<IntToPython(MaxN)>>

\* The moves of an instance from one state to the next.
Moves ==
    {<<"NoInstance", "Constructing">>, <<"Constructing", "Live">>,
     <<"Live", "OverrideDetached">>, <<"Live", "Destroyed">>,
     <<"OverrideDetached", "Destroyed">>}

\* C10: an instance moves only along Constructing -> Live -> (optionally
\* OverrideDetached) -> Destroyed.  When the proxy is destroyed while g_Base
\* still holds the instance, the instance stays alive: get_name() still
\* returns its name, and every dispatch entered after the proxy's
\* destruction fails with an error, before any attribute lookup and without
\* reading the destroyed proxy, until the last native owner is dropped and
\* the instance is destroyed.
C10_Lifecycle ==
    /\ [][InstState' # InstState => <<InstState, InstState'>> \in Moves]_vars
    /\ [](/\ ~readFreed
          /\ (proxy = "dead" /\ g_Base) => inst = "alive"
          /\ inst = "destroyed" => (~g_Base /\ proxy = "dead" /\ use_count = 0)
          /\ inst = "alive" => use_count >= 1
          /\ nameLast.op = "get_name" => nameLast.res = name
          /\ InstState = "OverrideDetached" => fpc \in {"idle", "deref", "check", "exit"}
          /\ (Finished /\ fres.entry = "dead") =>
                 (fres.res = "DanglingOverrideReference" /\ ~fres.lookedUp /\ ~fres.called))

\* C10 witness: in OverrideDetached, with g_Base the only owner, get_name()
\* has returned the name and a dispatch through f_global_Base has failed.
C10_Witness ==
    /\ InstState = "OverrideDetached"
    /\ g_Base /\ use_count = 1
    /\ nameLast.op = "get_name" /\ nameLast.state = "OverrideDetached" /\ nameLast.res = name
    /\ Finished /\ fres.op = "f_global_Base" /\ fres.entry = "dead"
    /\ fres.res = "DanglingOverrideReference"

\* The strong references to the proxy: those of python code, and f's local
\* obj while a dispatch is in progress.
ProxyStrongCount == hostRefs + (IF obj = "proxy" THEN 1 ELSE 0)

\* C11: the back-reference of a PyBase to its proxy is non-owning: once the
\* constructor or a dispatch has returned, the proxy's strong references are
\* those of python code only, so the proxy is destroyed as soon as python
\* holds none, whatever the number of native owners of the instance; the
\* back-reference designates the proxy exactly as long as the proxy lives.
C11_BackReferenceNonOwning ==
    /\ (fpc = "idle" /\ proxy # "none") =>
           (obj = "unset" /\ ProxyStrongCount = hostRefs /\ (proxy = "alive" <=> hostRefs >= 1))
    /\ proxy = "alive" <=> ProxyStrongCount >= 1
    /\ proxy = "alive" <=> weakref = "proxy"
    /\ (proxy = "dead" /\ g_Base) => (inst = "alive" /\ use_count = 1 /\ ~holder)

\* C11 witness: after a dispatch that called the override, python has
\* dropped its references and the proxy is gone, though g_Base still owns
\* the instance.
C11_Witness ==
    /\ fpc = "idle" /\ proxy = "dead" /\ hostRefs = 0
    /\ g_Base /\ inst = "alive"
    /\ fres.called /\ fres.res = "ok"

\* The shared owners of the instance: the proxy's storage and g_Base.
Owners == (IF holder THEN 1 ELSE 0) + (IF g_Base THEN 1 ELSE 0)

\* C12: the instance is destroyed exactly once, at the very step where its
\* last shared owner (the proxy's holder or g_Base) disappears, and never
\* while the proxy or g_Base still refers to it.
C12_DestroyedWithLastOwner ==
    /\ [][(inst = "alive" /\ inst' = "destroyed") <=> (Owners >= 1 /\ Owners' = 0)]_vars
    /\ [][inst = "destroyed" => inst' = "destroyed"]_vars
    /\ [][inst' = "destroyed" => inst \in {"alive", "destroyed"}]_vars
    /\ [](inst = "alive" => (Owners >= 1 /\ use_count = Owners))
    /\ [](inst = "destroyed" => (Owners = 0 /\ use_count = 0))
    /\ [](holder => proxy = "alive")

\* C12 witness: the instance outlived its proxy through g_Base, a dispatch
\* failed meanwhile, and clear_global_Base then destroyed it.
C12_Witness ==
    /\ inst = "destroyed" /\ proxy = "dead" /\ ~g_Base
    /\ fres.op = "f_global_Base" /\ fres.res = "DanglingOverrideReference"

(* ------------- a call through the adapter of a registered function ------ *)

\* Functions registered by initthe_greatest_module that take and return
\* numbers, with their arities and the type of their parameters.
Registered == {"add", "print_float", "f_global_Base"}

Arity(f) == IF f = "add" THEN 2 ELSE 1

ParamType(f) == IF f = "print_float" THEN "double" ELSE "ssize_t"

\* The python objects passed as arguments, and the lengths of the
\* positional sequences.
PyArgs == {IntToPython(k) : k \in 0 .. SsizeMax} \cup {[type |-> "str", v |-> 0], [type |-> "float", v |-> 1]}

ArgLens == 0 .. 3

\* from_dynamic for a parameter of type t accepts x.
Convertible(x, t) ==
    IF t = "ssize_t" THEN x.type = "int" /\ x.v \in Ssize ELSE x.type \in {"int", "float"}

\* The value python passes for a parameter given by keyword.
KwValue == IntToPython(1)

\* The arguments as bound to the parameters: the positional ones, the
\* trailing akw parameters taken from the keywords.
Bound ==
    [i \in 1 .. Arity(afunc) |->
        IF i <= Len(aargs) /\ i <= Arity(afunc) - akw THEN aargs[i] ELSE KwValue]

\* Python calls the registered function f with (args, kw).
AdapterCall(f, args, kw) ==
    /\ apc = "idle"
    /\ apc' = "bind"
    /\ afunc' = f
    /\ aargs' = args
    /\ akw' = kw
    /\ anative' = <<>>
    /\ ares' = 0
    /\ aexc' = "none"
    /\ aret' = Pending
    /\ errFlag' = FALSE
    /\ escaped' = FALSE
    /\ aub' = FALSE
    /\ UNCHANGED nonCallVars

\* Argument binding: the length of the sequence against the arity, then the
\* parameters left unresolved by positions and keywords.
Bind ==
    /\ apc = "bind"
    /\ IF Len(aargs) > Arity(afunc) \/ (akw = 0 /\ Len(aargs) # Arity(afunc))
       THEN aexc' = "ArityMismatch" /\ apc' = "boundary"
       ELSE IF Len(aargs) + akw < Arity(afunc)
            THEN aexc' = "MissingArgument" /\ apc' = "boundary"
            ELSE aexc' = aexc /\ apc' = "convert"
    /\ UNCHANGED <<afunc, aargs, akw, anative, ares, aret, errFlag, escaped, aub>>
    /\ UNCHANGED nonCallVars

\* Each bound argument is converted with from_dynamic for its parameter.
Convert ==
    /\ apc = "convert"
    /\ IF \A i \in 1 .. Arity(afunc) : Convertible(Bound[i], ParamType(afunc))
       THEN /\ anative' = [i \in 1 .. Arity(afunc) |-> Bound[i].v]
            /\ apc' = "invoke"
            /\ UNCHANGED aexc
       ELSE /\ aexc' = "TypeMismatch"
            /\ apc' = "boundary"
            /\ UNCHANGED anative
    /\ UNCHANGED <<afunc, aargs, akw, ares, aret, errFlag, escaped, aub>>
    /\ UNCHANGED nonCallVars

\* static ssize_t add(ssize_t x, ssize_t y) { return x+y; }
\* A sum outside ssize_t is a signed overflow: any value may come back.
add ==
    /\ apc = "invoke"
    /\ afunc = "add"
    /\ IF anative[1] + anative[2] \in Ssize
       THEN ares' = anative[1] + anative[2] /\ aub' = aub
       ELSE (\E r \in Ssize : ares' = r) /\ aub' = TRUE
    /\ apc' = "result"
    /\ UNCHANGED <<afunc, aargs, akw, anative, aexc, aret, errFlag, escaped>>
    /\ UNCHANGED nonCallVars

\* static void print_float(double x)
print_float ==
    /\ apc = "invoke"
    /\ afunc = "print_float"
    /\ apc' = "result"
    /\ UNCHANGED <<afunc, aargs, akw, anative, ares, aexc, aret, errFlag, escaped, aub>>
    /\ UNCHANGED nonCallVars

\* The ways a call of f_global_Base(n) ends: 0 or the override's result, or
\* one of the failures of PyBase::f; python's indicator is already set when
\* the failure comes from python (a missing attribute, a call that raised).
DispatchErrors ==
    {"DanglingOverrideReference", "OverrideNotFound", "pyerr_occurred", "TypeMismatch"}

InvokeGlobalBase ==
    /\ apc = "invoke"
    /\ afunc = "f_global_Base"
    /\ \E out \in DispatchErrors \cup {"ok"} :
          IF out = "ok"
          THEN /\ \E r \in 0 .. 1 : ares' = r
               /\ apc' = "result"
               /\ UNCHANGED <<aexc, errFlag>>
          ELSE /\ aexc' = out
               /\ errFlag' = (out \in {"OverrideNotFound", "pyerr_occurred"})
               /\ apc' = "boundary"
               /\ UNCHANGED ares
    /\ UNCHANGED <<afunc, aargs, akw, anative, aret, escaped, aub>>
    /\ UNCHANGED nonCallVars

\* The result is converted with to_dynamic; a void function gives None.
Result ==
    /\ apc = "result"
    /\ aret' = IF afunc = "print_float" THEN PyNone ELSE IntToPython(ares)
    /\ apc' = "boundary"
    /\ UNCHANGED <<afunc, aargs, akw, anative, ares, aexc, errFlag, escaped, aub>>
    /\ UNCHANGED nonCallVars

\* Injected fault: the failures of the dispatch are not caught.
Boundary_DispatchNotCaught ==
    /\ apc = "boundary"
    /\ IF aexc \in DispatchErrors
       THEN escaped' = TRUE /\ UNCHANGED <<aret, errFlag>>
       ELSE IF aexc # "none"
            THEN aret' = NoRet /\ errFlag' = TRUE /\ UNCHANGED escaped
            ELSE UNCHANGED <<aret, errFlag, escaped>>
    /\ apc' = "returned"
    /\ UNCHANGED <<afunc, aargs, akw, anative, ares, aexc, aub>>
    /\ UNCHANGED nonCallVars

\* The boundary: an exception in flight is caught and translated, the
\* indicator is set and a null handle is returned; otherwise the result is.
Boundary ==
    /\ apc = "boundary"
    /\ IF aexc # "none"
       THEN aret' = NoRet /\ errFlag' = TRUE
       ELSE UNCHANGED <<aret, errFlag>>
    /\ apc' = "returned"
    /\ UNCHANGED <<afunc, aargs, akw, anative, ares, aexc, escaped, aub>>
    /\ UNCHANGED nonCallVars

NextCall ==
    \/ \E f \in Registered, n \in ArgLens, kw \in 0 .. 1 :
          \E args \in [1 .. n -> PyArgs] : AdapterCall(f, args, kw)
    \/ Bind
    \/ Convert
    \/ add
    \/ print_float
    \/ InvokeGlobalBase
    \/ Result
    \/ Boundary

SpecCall == Init /\ [][NextCall]_vars

\* C13: every call that enters native code through an adapter returns a
\* non-null handle, or returns a null handle with python's pending-error
\* indicator set; every failure raised in native code ends in the second
\* way and none leaves native code as an exception.
C13_AdapterBoundary ==
    /\ ~escaped
    /\ apc = "returned" =>
           IF aexc = "none"
           THEN aret \notin {NoRet, Pending}
           ELSE aret = NoRet /\ errFlag

\* C13 witness: a dispatch that failed with DanglingOverrideReference, on
\* which python's indicator was not set, has come back as a null handle
\* with the indicator set.
C13_Witness ==
    /\ apc = "returned" /\ afunc = "f_global_Base"
    /\ aexc = "DanglingOverrideReference" /\ aret = NoRet /\ errFlag

\* C14: an adapter wrapping a callable of arity n, called without keyword
\* arguments, fails with ArityMismatch for every positional sequence whose
\* length differs from n, fails with TypeMismatch when some argument is not
\* convertible to its parameter type, and otherwise returns the callable's
\* result converted with to_dynamic: for add, (x, y) yields x + y, and
\* (2, 3) yields 5.
C14_AdapterResults ==
    (apc = "returned" /\ akw = 0) =>
        /\ Len(aargs) # Arity(afunc) => aexc = "ArityMismatch"
        /\ (/\ Len(aargs) = Arity(afunc)
            /\ \E i \in 1 .. Len(aargs) : ~Convertible(aargs[i], ParamType(afunc))) =>
               aexc = "TypeMismatch"
        /\ (/\ afunc = "add"
            /\ Len(aargs) = 2
            /\ \A i \in 1 .. 2 : Convertible(aargs[i], "ssize_t")) =>
               /\ aexc = "none"
               /\ aret = IntToPython(aargs[1].v + aargs[2].v)
               /\ (aargs[1].v = 2 /\ aargs[2].v = 3) => aret = IntToPython(5)

(* -------- converter<X>, converter<shared_ptr<X>>, converter<shared_ptr<Base>> -------- *)

\* The classes bound to python types: X (X_type) and Base (Base_type).
Classes == {"X", "Base"}

FreeObjs == {o \in ObjId : xobj[o].st = "free"}

NewObj == CHOOSE o \in FreeObjs : \A o2 \in FreeObjs : o <= o2

FreeProxies == {q \in ProxyId : xprox[q].st = "free"}

NewProxy == CHOOSE q \in FreeProxies : \A q2 \in FreeProxies : q <= q2

\* One shared_ptr to o goes away: o is destroyed with the last one.
UseDec(o) ==
    /\ xuse' = [xuse EXCEPT ![o] = @ - 1]
    /\ xobj' = IF xuse[o] = 1 THEN [xobj EXCEPT ![o].st = "destroyed"] ELSE xobj

\* make_Xp(i) { return make_shared<X> (i); } and make_derived(m)
\* { return make_shared<Derived> (m); }: a new object, held by native code.
make_shared(T, i) ==
    /\ FreeObjs # {}
    /\ xobj' = [xobj EXCEPT ![NewObj] = [st |-> "alive", T |-> T, val |-> XCtor(i)]]
    /\ xuse' = [xuse EXCEPT ![NewObj] = 1]
    /\ xnat' = [xnat EXCEPT ![NewObj] = 1]
    /\ xlast' = [NoConv EXCEPT !.op = "make_shared", !.T = T, !.v = XCtor(i), !.ptr = NewObj]
    /\ UNCHANGED <<xprox, xcopies>>
    /\ UNCHANGED nonConvVars

\* Injected fault: to_python copies its argument twice.
X_to_python_TwoCopies(v) ==
    /\ FreeObjs # {}
    /\ FreeProxies # {}
    /\ xcopies < MaxCopies
    /\ xobj' = [xobj EXCEPT ![NewObj] = [st |-> "alive", T |-> "X", val |-> XCopy(XCopy(v))]]
    /\ xuse' = [xuse EXCEPT ![NewObj] = 1]
    /\ xprox' = [xprox EXCEPT ![NewProxy] = [st |-> "alive", T |-> "X", holds |-> NewObj,
                                            ptr |-> 0, v |-> v, made |-> "value"]]
    /\ xcopies' = xcopies + 2
    /\ xlast' = [NoConv EXCEPT !.op = "X_to_python", !.T = "X", !.v = v, !.q = NewProxy,
                               !.ptr = NewObj, !.made = "value", !.copiesBefore = xcopies]
    /\ UNCHANGED xnat
    /\ UNCHANGED nonConvVars

\* converter<X>::to_python(const X &x): p = make_shared<X> (x) copies x into
\* a new object; extension_type<X>::to_python(X_type.tobj, p) makes a python
\* object holding p; p is destroyed on return.
X_to_python(v) ==
    /\ FreeObjs # {}
    /\ FreeProxies # {}
    /\ xcopies < MaxCopies
    /\ xobj' = [xobj EXCEPT ![NewObj] = [st |-> "alive", T |-> "X", val |-> XCopy(v)]]
    /\ xuse' = [xuse EXCEPT ![NewObj] = 1]
    /\ xprox' = [xprox EXCEPT ![NewProxy] = [st |-> "alive", T |-> "X", holds |-> NewObj,
                                            ptr |-> 0, v |-> v, made |-> "value"]]
    /\ xcopies' = xcopies + 1
    /\ xlast' = [NoConv EXCEPT !.op = "X_to_python", !.T = "X", !.v = v, !.q = NewProxy,
                               !.ptr = NewObj, !.made = "value", !.copiesBefore = xcopies]
    /\ UNCHANGED xnat
    /\ UNCHANGED nonConvVars

\* converter<X>::from_python(obj, where): p = shared_ptr_from_python(
\* X_type.tobj, obj, where), refused unless obj is an X; return *p copies
\* the object; p is destroyed on return.
X_from_python(q) ==
    /\ xprox[q].st = "alive"
    /\ xcopies < MaxCopies
    /\ IF xprox[q].T = "X"
       THEN /\ xcopies' = xcopies + 1
            /\ xlast' = [NoConv EXCEPT !.op = "X_from_python", !.T = "X", !.v = xprox[q].v,
                                       !.q = q, !.ptr = xprox[q].holds, !.made = xprox[q].made,
                                       !.out = XCopy(xobj[xprox[q].holds].val),
                                       !.copiesBefore = xcopies,
                                       !.useBefore = xuse[xprox[q].holds], !.res = "ok"]
       ELSE /\ xcopies' = xcopies
            /\ xlast' = [NoConv EXCEPT !.op = "X_from_python", !.T = "X", !.q = q,
                                       !.copiesBefore = xcopies, !.res = "TypeMismatch"]
    /\ UNCHANGED <<xobj, xuse, xnat, xprox>>
    /\ UNCHANGED nonConvVars

\* Python constructs an X: X_constructor1 returns new X(i), which the type
\* binding keeps in the new python object.
X_constructor(i) ==
    /\ FreeObjs # {}
    /\ FreeProxies # {}
    /\ xobj' = [xobj EXCEPT ![NewObj] = [st |-> "alive", T |-> "X", val |-> XCtor(i)]]
    /\ xuse' = [xuse EXCEPT ![NewObj] = 1]
    /\ xprox' = [xprox EXCEPT ![NewProxy] = [st |-> "alive", T |-> "X", holds |-> NewObj,
                                            ptr |-> 0, v |-> XCtor(i), made |-> "constructor"]]
    /\ xlast' = [NoConv EXCEPT !.op = "X_constructor", !.T = "X", !.v = XCtor(i),
                               !.q = NewProxy, !.ptr = NewObj]
    /\ UNCHANGED <<xnat, xcopies>>
    /\ UNCHANGED nonConvVars

\* Injected fault: to_python wraps a copy of the pointee.
Xp_to_python_Copies(T, o) ==
    /\ xobj[o].st = "alive"
    /\ xobj[o].T = T
    /\ xnat[o] >= 1
    /\ FreeProxies # {}
    /\ FreeObjs # {}
    /\ xcopies < MaxCopies
    /\ xobj' = [xobj EXCEPT ![NewObj] = [st |-> "alive", T |-> T, val |-> XCopy(xobj[o].val)]]
    /\ xuse' = [xuse EXCEPT ![NewObj] = 1]
    /\ xcopies' = xcopies + 1
    /\ xprox' = [xprox EXCEPT ![NewProxy] = [st |-> "alive", T |-> T, holds |-> NewObj,
                                            ptr |-> o, v |-> xobj[o].val, made |-> "shared"]]
    /\ xlast' = [NoConv EXCEPT !.op = "Xp_to_python", !.T = T, !.v = xobj[o].val,
                               !.q = NewProxy, !.ptr = o, !.made = "shared",
                               !.copiesBefore = xcopies, !.useBefore = xuse[o]]
    /\ UNCHANGED xnat
    /\ UNCHANGED nonConvVars

\* converter<shared_ptr<T>>::to_python(x): extension_type<T>::to_python(
\* T_type.tobj, x) makes a python object holding a copy of the shared_ptr.
Xp_to_python(T, o) ==
    /\ xobj[o].st = "alive"
    /\ xobj[o].T = T
    /\ xnat[o] >= 1
    /\ FreeProxies # {}
    /\ xuse' = [xuse EXCEPT ![o] = @ + 1]
    /\ xprox' = [xprox EXCEPT ![NewProxy] = [st |-> "alive", T |-> T, holds |-> o,
                                            ptr |-> o, v |-> xobj[o].val, made |-> "shared"]]
    /\ xlast' = [NoConv EXCEPT !.op = "Xp_to_python", !.T = T, !.v = xobj[o].val,
                               !.q = NewProxy, !.ptr = o, !.made = "shared",
                               !.copiesBefore = xcopies, !.useBefore = xuse[o]]
    /\ UNCHANGED <<xobj, xnat, xcopies>>
    /\ UNCHANGED nonConvVars

\* converter<shared_ptr<T>>::from_python(obj, where): extension_type<T>::
\* shared_ptr_from_python(T_type.tobj, obj, where) returns a copy of the
\* shared_ptr obj holds, refused unless obj is a T.
Xp_from_python(T, q) ==
    /\ xprox[q].st = "alive"
    /\ IF xprox[q].T = T
       THEN /\ xnat[xprox[q].holds] + 1 \in NativeCounts
            /\ xuse' = [xuse EXCEPT ![xprox[q].holds] = @ + 1]
            /\ xnat' = [xnat EXCEPT ![xprox[q].holds] = @ + 1]
            /\ xlast' = [NoConv EXCEPT !.op = "Xp_from_python", !.T = T, !.v = xprox[q].v,
                                       !.q = q, !.ptr = xprox[q].ptr, !.made = xprox[q].made,
                                       !.out = xobj[xprox[q].holds].val,
                                       !.outptr = xprox[q].holds, !.copiesBefore = xcopies,
                                       !.useBefore = xuse[xprox[q].holds], !.res = "ok"]
       ELSE /\ xlast' = [NoConv EXCEPT !.op = "Xp_from_python", !.T = T, !.q = q,
                                       !.copiesBefore = xcopies, !.res = "TypeMismatch"]
            /\ UNCHANGED <<xuse, xnat>>
    /\ UNCHANGED <<xobj, xprox, xcopies>>
    /\ UNCHANGED nonConvVars

\* Native code drops one of its shared_ptrs to o.
drop_native(o) ==
    /\ xnat[o] >= 1
    /\ xnat' = [xnat EXCEPT ![o] = @ - 1]
    /\ UseDec(o)
    /\ xlast' = [NoConv EXCEPT !.op = "drop_native", !.ptr = o]
    /\ UNCHANGED <<xprox, xcopies>>
    /\ UNCHANGED nonConvVars

\* Python drops its last reference to q: its storage releases its shared_ptr.
proxy_dealloc(q) ==
    /\ xprox[q].st = "alive"
    /\ xprox' = [xprox EXCEPT ![q].st = "dead"]
    /\ UseDec(xprox[q].holds)
    /\ xlast' = [NoConv EXCEPT !.op = "proxy_dealloc", !.q = q]
    /\ UNCHANGED <<xnat, xcopies>>
    /\ UNCHANGED nonConvVars

NextConv ==
    \/ \E T \in Classes, i \in 0 .. MaxX : make_shared(T, i)
    \/ \E v \in XVals : X_to_python(v)
    \/ \E q \in ProxyId : X_from_python(q)
    \/ \E i \in 0 .. MaxX : X_constructor(i)
    \/ \E T \in Classes, o \in ObjId : Xp_to_python(T, o)
    \/ \E T \in Classes, q \in ProxyId : Xp_from_python(T, q)
    \/ \E o \in ObjId : drop_native(o)
    \/ \E q \in ProxyId : proxy_dealloc(q)

SpecConv == Init /\ [][NextConv]_vars

\* C15: for every X v, converter<X>::from_python(converter<X>::to_python(v))
\* equals v, and each call of converter<X>::to_python copies the X exactly
\* once.
C15_ValueRoundTrip ==
    /\ (xlast.op = "X_from_python" /\ xlast.made = "value") =>
           (xlast.res = "ok" /\ xlast.out = xlast.v)
    /\ xlast.op = "X_to_python" =>
           /\ xcopies = xlast.copiesBefore + 1
           /\ xobj[xlast.ptr].val = xlast.v
           /\ xprox[xlast.q].holds = xlast.ptr
           /\ xuse[xlast.ptr] = 1

\* C15 witness: an X of value MaxX has gone through to_python and back.
C15_Witness ==
    /\ xlast.op = "X_from_python" /\ xlast.made = "value"
    /\ xlast.v = XCtor(MaxX) /\ xlast.out = XCtor(MaxX)
    /\ xcopies = 2

\* C16: for every shared_ptr p to an X or a Base, from_python(to_python(p))
\* points to the object p points to, and neither conversion copies the
\* pointee: only the use count changes, by one.
C16_SharedRoundTrip ==
    /\ (xlast.op = "Xp_from_python" /\ xlast.made = "shared" /\ xlast.res = "ok") =>
           /\ xlast.outptr = xlast.ptr
           /\ xcopies = xlast.copiesBefore
           /\ xuse[xlast.outptr] = xlast.useBefore + 1
           /\ xobj[xlast.outptr].st = "alive"
    /\ (xlast.op = "Xp_from_python" /\ xlast.made = "shared") =>
           (xlast.res = "ok" <=> xprox[xlast.q].T = xlast.T)
    /\ xlast.op = "Xp_to_python" =>
           /\ xprox[xlast.q].holds = xlast.ptr
           /\ xcopies = xlast.copiesBefore
           /\ xuse[xlast.ptr] = xlast.useBefore + 1

\* C16 witness: a shared_ptr<Base> has gone through to_python and back, and
\* native code holds two shared_ptrs to the one object.
C16_Witness ==
    /\ xlast.op = "Xp_from_python" /\ xlast.T = "Base" /\ xlast.made = "shared"
    /\ xlast.res = "ok" /\ xlast.outptr = xlast.ptr
    /\ xnat[xlast.ptr] = 2 /\ xuse[xlast.ptr] = 3

(* --------------- further claims on the wrappers (SpecObj) --------------- *)

\* The wrappers that exist and hold o.
Holders(o) == {w \in W : Exists(w) /\ ptr[w] = o}

\* C17: after any sequence of constructions, copies, moves, assignments and
\* destructions of wrappers, failed ones included, the count of each object
\* is the number of its owners outside the wrappers plus the number of
\* wrappers that hold it.
C17_CountEqualsOwners ==
    pc.op = "idle" => \A o \in Obj : rc[o] = ext[o] + Cardinality(Holders(o))

\* C18: move-constructing or move-assigning a wrapper from a source that
\* holds h leaves h's count unchanged at every step, and afterwards the
\* destination holds h and the source does not.
C18_MoveTransfers ==
    (last.op \in {"move", "view_rvalue", "move_assign"} /\ last.h # NULL) =>
        /\ rc[last.h] = pre[last.h]
        /\ (pc.op = "idle" /\ last.res = "ok") =>
               /\ ptr[last.dst] = last.h
               /\ last.src # last.dst => ptr[last.src] = NULL

FilledUpTo(k) ==
    \A i \in 1 .. Len(tupItems) :
        IF i <= k
        THEN tupItems[i] # 0 /\ itemVal[tupItems[i]] = ToPython(targs[i])
        ELSE tupItems[i] = 0

\* C20: make fills the slots in the order 0, 1, ..., n-1; when converting or
\* storing element k fails, slots 0 .. k-1 are filled and no later slot has
\* been touched, the failure reaches the caller, who gets no tuple, and the
\* partly built tuple is released with the objects it holds.
C20_MakePartialFailure ==
    /\ (mode = "make" /\ tpc = "set_tuple") => (FilledUpTo(tpos) /\ Len(tupItems) = Len(targs))
    /\ (mode = "make" /\ tpc \in {"set_item", "set_ok", "set_fail"}) =>
           (setPos = tpos /\ (tpc = "set_item" => FilledUpTo(tpos)))
    /\ (mode = "make" /\ tpc = "unwind_ret") =>
           (tres = "pyerr_occurred" /\ FilledUpTo(tpos) /\ tpos < Len(targs))
    /\ (mode = "make" /\ tpc = "done" /\ tres = "pyerr_occurred") =>
           /\ ~retHeld /\ tupRc = 0 /\ tupItems = <<>>
           /\ \A i \in ItemId : itemRc[i] = 0 /\ itemVal[i] = Free
           /\ ~ub

\* C20 witness: make of MaxLen arguments failed at its last element, the
\* earlier slots filled, and everything has been released.
C20_Witness ==
    /\ mode = "make" /\ tpc = "done" /\ tres = "pyerr_occurred"
    /\ Len(targs) = MaxLen /\ tpos = MaxLen - 1
    /\ tupRc = 0 /\ \A i \in ItemId : itemRc[i] = 0

\* make_empty(n) has returned to the program, which has not yet used the tuple.
MakeEmptyReturned == mode = "empty" /\ tpc = "done" /\ tres = "ok"

\* What make_empty leaves: for n >= 0 a py_tuple holding the only reference to
\* a tuple of n slots; for n < 0 pyerr_occurred and no tuple.
MakeEmptyShape ==
    /\ MakeEmptyReturned => (en >= 0 /\ retHeld /\ tupRc = 1 /\ Len(tupItems) = en)
    /\ (mode = "empty" /\ tpc = "done" /\ en < 0) =>
           (tres = "pyerr_occurred" /\ ~retHeld /\ tupRc = 0)

\* C21: for n >= 0, make_empty(n) returns a py_tuple of size n that holds
\* the only reference to a new tuple, and get_item(i) on it succeeds and
\* returns None for every i in 0 .. n-1; for n < 0 it throws pyerr_occurred.
C21_MakeEmptyHoldsNone ==
    /\ MakeEmptyShape
    /\ (glast.op = "get_item" /\ glast.fresh /\ glast.pos \in 0 .. (glast.n - 1)) =>
           (glast.res = "ok" /\ glast.type = "NoneType")

====
